---- MODULE Spec2Model ----
(***************************************************************************)
(* getmref: segmentation of a document into bibliography records           *)
(* (HandleBBL.gather_records), batching and lookup (HandleBBL.get_mr_codes,*)
(* QueryHandler.query) and reconciliation into the output document         *)
(* (HandleBBL.transfer_to_file).                                           *)
(*                                                                         *)
(* A document is a sequence of physical lines.  Every physical line has    *)
(* its own text, so a line is identified by its index in the document; a   *)
(* string is the sequence of the indices of the physical lines it is made  *)
(* of, and string concatenation is \o.  What the regular expressions of    *)
(* the program see of a physical line is its kind:                         *)
(*   "text"    ordinary words, no key, no marker     "words\n"             *)
(*   "blank"   white space only                      " \n"                 *)
(*   "comment" a full TeX comment line               "%c\n"                *)
(*   "begin"   \begin{thebibliography}{9}                                  *)
(*   "end"     \end{thebibliography}                                       *)
(*   "bibitem" \bibitem{key} words                                         *)
(*   "bibpart" \bibitem alone, its {key} on a later line                   *)
(*   "keyarg"  {key} words                                                 *)
(*   "bibtex"  @article{key,                                               *)
(*   "amsrefs" \bib{key}{article}{                                         *)
(*   "mr"      words holding an MR identifier        "\MR{1234567}\n"      *)
(***************************************************************************)
EXTENDS Integers, Sequences, FiniteSets, TLC

\* ---- bounds of the model ------------------------------------------------
MaxLines == 3

\* ---- program constants --------------------------------------------------
QUERY_ITEMS_LIMIT == 100
HTML_OK == 200
HTML_FAILED == 412
NOT_FOUND_ERRNO == 0 - 1
BATCH_ERROR_ERRNO == 0 - 2
EXPAT_ERRNO == 4

Kinds == {"text", "blank", "comment", "begin", "end", "bibitem",
          "bibpart", "keyarg", "bibtex", "amsrefs", "mr"}

ITYPES == {"bibtex", "amsrefs", "bibitem"}

\* item limits offered on the command line (the last one is above the cap)
ItemNos == {1, 2, QUERY_ITEMS_LIMIT + 1}

\* status codes the lookup service answers with
StatusCodes == {HTML_OK, 500}

\* Python's None for an optional integer is the empty sequence
None == <<>>
Some(x) == <<x>>

\* the string "\n" that is no line of the document
NEWLINE == <<0>>

\* no static method of RefHandler is called on its own
NoCall == [op |-> "none"]

\* the input is not the output of an earlier run
NoPass == [recs |-> <<>>, origin |-> <<>>, nout |-> 0]

VARIABLES
    doc,              \* the input file: sequence of line kinds
    arg_require_env,  \* require_env as given to run()
    itemno,           \* command line item limit
    disable_queries,  \* command line test toggle
    desync,           \* the service may answer with an id it was not sent
    require_env,      \* parameter of the running get_mr_codes pass
    pos,              \* gather_records: index of the next line of icontent
    gather, search, multiline, element, envstatus,
    gen_done,         \* gather_records yielded EOF
    yielded,          \* items yielded and not yet taken by the for loop
    nyielded,         \* number of items yielded so far in this pass
    emitted,          \* history: every item yielded in this pass
    valid, eof, ifile_end_lines, out,
    elems, qerrno,    \* refs_container
    query_elems,      \* QueryHandler.query_elems (refids of the fragments)
    stdt,             \* StatisticsData counters
    pc,               \* position in get_mr_codes
    nqueries,         \* history: number of calls of query()
    last_flush,       \* history: the latest transfer_to_file with members
    finalized,        \* history: refids in the order transfer_to_file took them
    sleeps,           \* history: number of time.sleep(wait) calls
    call,             \* a call of a static method of RefHandler: its arguments
    ret,              \* what the call returned
    first_pass        \* history: the records of the run whose output is the
                      \* input of the running one

vars == <<doc, arg_require_env, itemno, disable_queries, desync, require_env,
          pos, gather, search, multiline, element, envstatus, gen_done,
          yielded, nyielded, emitted, valid, eof, ifile_end_lines, out,
          elems, qerrno, query_elems, stdt, pc, nqueries,
          last_flush, finalized, sleeps, call, ret, first_pass>>

\* ---- sequences ----------------------------------------------------------
Last(s) == s[Len(s)]
Front(s) == SubSeq(s, 1, Len(s) - 1)
Range(s) == {s[i] : i \in 1..Len(s)}
Reverse(s) == [i \in 1..Len(s) |-> s[Len(s) + 1 - i]]

RECURSIVE Flatten(_)
Flatten(ss) == IF ss = <<>> THEN <<>> ELSE Head(ss) \o Flatten(Tail(ss))

Min(a, b) == IF a < b THEN a ELSE b

\* min() of a non-empty set of numbers (indices[0] of an ascending list)
Min1(S) == IF S = {} THEN 0 ELSE CHOOSE x \in S : \A y \in S : x <= y

\* ---- lines --------------------------------------------------------------
KindOf(i) == doc[i]

\* line.strip() is empty
IsBlank(line) == Len(line) = 1 /\ line[1] # 0 /\ KindOf(line[1]) = "blank"

\* RE_MR.search(line) finds an identifier
HasMR(line) == \E i \in 1..Len(line) : line[i] # 0 /\ KindOf(line[i]) = "mr"

\* RefElement.__init__
RefElement == [reftype |-> "none", refid |-> 0, orig_mrid |-> FALSE,
               orig_lines |-> <<>>, cleaned_lines |-> <<>>,
               query_lines |-> <<>>, comment_lines |-> <<>>,
               errno |-> None, mrid |-> FALSE,
               seq |-> 0,          \* history: its number among the yielded items
               rejected |-> FALSE] \* history: its fragment failed validation

\* HandleBBL._remove_tex_comments: a full comment line becomes the empty
\* string; when the held-over start of a \bibitem precedes a comment line,
\* RE_BIBRE_PART matches from the line end before the comment and only
\* group(1) + "\n" is left, which is "\n"
remove_tex_comments(line) ==
    IF Len(line) = 1 /\ KindOf(line[1]) = "comment" THEN <<>>
    ELSE IF KindOf(Last(line)) = "comment" THEN NEWLINE
    ELSE line

\* RE_BIBREF.search(line) on a line that starts with \bibitem: some
\* \bibitem is followed by {key} with nothing but white space in between
RECURSIVE BibrefMatches(_)
BibrefMatches(line) ==
    IF line = <<>> THEN FALSE
    ELSE LET k == KindOf(Last(line)) IN
         IF k = "bibitem" THEN TRUE
         ELSE IF k = "keyarg" THEN
              LET RECURSIVE Before(_)
                  Before(s) == IF s = <<>> THEN FALSE
                               ELSE IF KindOf(Last(s)) = "bibpart" THEN TRUE
                               ELSE IF KindOf(Last(s)) = "blank"
                                    THEN Before(Front(s))
                               ELSE FALSE
              IN Before(Front(line))
         ELSE FALSE

\* RefHandler.find_reference: the reference type and the match groups
\* ("envstatus" of an environment marker, "line" of a held-over \bibitem)
find_reference(line) ==
    IF line = <<>> \/ line = NEWLINE
    THEN [reftype |-> "none", envstatus |-> "none", line |-> <<>>]
    ELSE IF KindOf(line[1]) \in {"bibitem", "bibpart"}
    THEN IF BibrefMatches(line)
         THEN [reftype |-> "bibitem", envstatus |-> "none", line |-> <<>>]
         ELSE [reftype |-> "bibitem", envstatus |-> "none", line |-> line]
    ELSE IF KindOf(line[1]) \in {"begin", "end"}
    THEN [reftype |-> "environment", envstatus |-> KindOf(line[1]),
          line |-> <<>>]
    ELSE IF KindOf(line[1]) \in {"bibtex", "amsrefs"}
    THEN [reftype |-> KindOf(line[1]), envstatus |-> "none", line |-> <<>>]
    ELSE [reftype |-> "none", envstatus |-> "none", line |-> <<>>]

\* gather_records.sort_comments_out: the loop over the reversed lines;
\* st = <<orig_lines, comment_lines, next_elem_orig_lines,
\*        next_elem_comment_lines, found, skip>>
RECURSIVE SortLoop(_, _, _)
SortLoop(rev, no, st) ==
    IF no >= Len(rev) THEN st
    ELSE LET line == rev[no + 1] IN
         IF ~st[5] /\ IsBlank(line)
         THEN SortLoop(rev, no + 1, <<st[1], st[2], st[3], st[4], st[5], no + 1>>)
         ELSE IF ~IsBlank(line) /\ line \in Range(st[2])
         THEN LET n == Len(st[1])
                  popped == [i \in 1..(st[6] + 1) |-> st[1][n + 1 - i]]
              IN SortLoop(rev, no + 1,
                          <<SubSeq(st[1], 1, n - st[6] - 1), Front(st[2]),
                            st[3] \o popped, Append(st[4], Last(st[2])),
                            TRUE, 0>>)
         ELSE st

\* the lines handed over are left in the order of the walk
sort_comments_out_unreversed(orig_lines, comment_lines) ==
    LET st == SortLoop(Reverse(orig_lines), 0,
                       <<orig_lines, comment_lines, <<>>, <<>>, FALSE, 0>>)
    IN [orig_lines |-> st[1], comment_lines |-> st[2],
        next_elem_orig_lines |-> st[3], next_elem_comment_lines |-> st[4]]

sort_comments_out(orig_lines, comment_lines) ==
    LET st == SortLoop(Reverse(orig_lines), 0,
                       <<orig_lines, comment_lines, <<>>, <<>>, FALSE, 0>>)
    IN [orig_lines |-> st[1], comment_lines |-> st[2],
        next_elem_orig_lines |-> Reverse(st[3]),
        next_elem_comment_lines |-> Reverse(st[4])]


\* ---- gather_records -----------------------------------------------------
\* an item the generator yields: the tag, and a record or a text
RecordItem(e) == [tag |-> e.reftype, rec |-> e, text |-> <<>>]
TextItem(tag, text) == [tag |-> tag, rec |-> RefElement, text |-> text]

\* the sealed element keeps the comment lines of its tail
Seal_nothing_moved(e) ==
    [item |-> RecordItem(e), next |-> RefElement, final_orig_lines |-> <<>>]

\* handle_bbl.py 317-325, 340-348: the open element is sealed and yielded,
\* the comment lines of its tail go to the next element
Seal(e) ==
    LET s == sort_comments_out(e.orig_lines, e.comment_lines) IN
    [item |-> RecordItem([e EXCEPT !.orig_lines = s.orig_lines,
                                   !.comment_lines = s.comment_lines]),
     next |-> [RefElement EXCEPT !.orig_lines = s.next_elem_orig_lines,
                                 !.comment_lines = s.next_elem_comment_lines],
     final_orig_lines |-> s.next_elem_orig_lines]

\* handle_bbl.py 354-369, 373-381: a line is appended to the open element
AppendLine(e, line, clean_line) ==
    [e EXCEPT !.orig_lines = Append(@, line),
              !.orig_mrid = @ \/ HasMR(clean_line),
              !.cleaned_lines = Append(@, clean_line),
              !.query_lines = Append(@, clean_line)]

\* one iteration of the for loop of gather_records (handle_bbl.py 302-388):
\* the generator state after the line, and what it yielded meanwhile
LoopBody(line) ==
    LET clean_line == remove_tex_comments(line)
        ref == IF search THEN find_reference(clean_line)
               ELSE [reftype |-> "none", envstatus |-> "none", line |-> <<>>]
        same == [element |-> element, gather |-> gather, search |-> search,
                 multiline |-> multiline, envstatus |-> envstatus,
                 yields |-> <<>>]
        open == element.reftype # "none"
        sealed == IF open THEN Seal(element).next ELSE element
        sealing == IF open THEN <<Seal(element).item>> ELSE <<>>
        \* handle_bbl.py 372-388
        rest(e, ys, ml) ==
            IF gather /\ e.reftype # "none"
            THEN [same EXCEPT !.element = AppendLine(e, line, clean_line),
                              !.multiline = ml, !.yields = ys]
            ELSE IF envstatus = "environment"
            THEN [same EXCEPT !.element = RefElement, !.multiline = ml,
                     !.yields = Append(ys, TextItem(envstatus,
                                        line \o Flatten(e.orig_lines)))]
            ELSE [same EXCEPT !.element = e, !.multiline = ml,
                     !.yields = Append(ys, TextItem(envstatus, line))]
    IN
    IF clean_line = <<>> /\ element.orig_lines # <<>>
    THEN [same EXCEPT !.element.orig_lines = Append(@, line),
                      !.element.comment_lines = Append(@, line)]
    ELSE IF require_env /\ ref.reftype = "environment"
    THEN [same EXCEPT !.element = sealed,
                      !.envstatus = ref.envstatus,
                      !.gather = (ref.envstatus = "begin"),
                      !.search = (ref.envstatus = "begin"),
                      !.yields = Append(sealing,
                                        TextItem(ref.envstatus, line))]
    ELSE IF ref.reftype \in ITYPES
    THEN IF ref.line # <<>>
         THEN [same EXCEPT !.multiline = ref.line]
         ELSE IF gather
         THEN [same EXCEPT
                 !.multiline = <<>>,
                 !.element = AppendLine([sealed EXCEPT !.reftype = ref.reftype],
                                        line, clean_line),
                 !.yields = sealing]
         ELSE rest(sealed, sealing, <<>>)
    ELSE rest(element, <<>>, multiline)

\* numbers the items of one step in the order they are yielded
Numbered(ys) == [i \in 1..Len(ys) |->
                   [tag |-> ys[i].tag, rec |-> ys[i].rec, text |-> ys[i].text,
                    seq |-> nyielded + i]]

cons_vars == <<valid, eof, ifile_end_lines, out, elems, qerrno, query_elems,
               stdt, nqueries, last_flush, finalized,
               sleeps>>
run_vars == <<arg_require_env, itemno, disable_queries, desync, call, ret>>
conf_vars == <<doc, run_vars, first_pass>>

\* the for loop of get_mr_codes asks the generator for its next item and
\* the generator reads input lines until it yields
GatherLine ==
    /\ pc = "loop" /\ yielded = <<>> /\ ~gen_done /\ pos <= Len(doc)
    /\ LET r == LoopBody(multiline \o <<pos>>) IN
       /\ element' = r.element
       /\ gather' = r.gather
       /\ search' = r.search
       /\ multiline' = r.multiline
       /\ envstatus' = r.envstatus
       /\ yielded' = Numbered(r.yields)
       /\ nyielded' = nyielded + Len(r.yields)
       /\ emitted' = emitted \o Numbered(r.yields)
    /\ pos' = pos + 1
    /\ UNCHANGED <<conf_vars, cons_vars, require_env, gen_done, pc>>

\* the record that is open at the end of the input is not yielded
GatherEOF_record_dropped ==
    /\ pc = "loop" /\ yielded = <<>> /\ ~gen_done /\ pos > Len(doc)
    /\ LET ys == <<TextItem("EOF", <<>>)>>
       IN /\ element' = element
          /\ yielded' = Numbered(ys)
          /\ nyielded' = nyielded + Len(ys)
          /\ emitted' = emitted \o Numbered(ys)
    /\ gen_done' = TRUE
    /\ UNCHANGED <<conf_vars, cons_vars, require_env, pos, gather, search,
                   multiline, envstatus, pc>>

\* handle_bbl.py 390-397: the input is exhausted
GatherEOF ==
    /\ pc = "loop" /\ yielded = <<>> /\ ~gen_done /\ pos > Len(doc)
    /\ LET open == element.reftype # "none"
           ys == IF open
                 THEN <<Seal(element).item,
                        TextItem("EOF", Flatten(Seal(element).final_orig_lines))>>
                 ELSE <<TextItem("EOF", <<>>)>>
       IN /\ element' = IF open THEN Seal(element).item.rec ELSE element
          /\ yielded' = Numbered(ys)
          /\ nyielded' = nyielded + Len(ys)
          /\ emitted' = emitted \o Numbered(ys)
    /\ gen_done' = TRUE
    /\ UNCHANGED <<conf_vars, cons_vars, require_env, pos, gather, search,
                   multiline, envstatus, pc>>


\* ---- get_mr_codes -------------------------------------------------------
\* the configured item limit is not taken over
query_items_limit_default == QUERY_ITEMS_LIMIT

\* HandleBBL.__init__, handle_bbl.py 109-110
query_items_limit == IF itemno < QUERY_ITEMS_LIMIT THEN itemno
                     ELSE QUERY_ITEMS_LIMIT

\* a piece of the output accumulator data_container[Ext.OUT]: pass-through
\* text, or the final text of a record (mrid: an identifier was spliced in)
TextSeg(item) == [seq |-> item.seq, kind |-> "text", text |-> item.text,
                  refid |-> 0, mrid |-> FALSE]
\* the text of a record is made of its cleaned lines
RecSeg_cleaned(e, sq) ==
    [seq |-> sq, kind |-> "rec", text |-> Flatten(e.cleaned_lines),
     refid |-> e.refid, mrid |-> e.mrid]

RecSeg(e, sq) == [seq |-> sq, kind |-> "rec", text |-> Flatten(e.orig_lines),
                  refid |-> e.refid, mrid |-> e.mrid]

gen_vars == <<require_env, pos, gather, search, multiline, element,
              envstatus, gen_done, nyielded, emitted>>

\* the first record of a batch is not let in
Accepts_nonzero(v) == v % query_items_limit # 0

\* handle_bbl.py 504: the record is taken into the open batch
Accepts(v) == v = 0 \/ v % query_items_limit # 0

\* the end of the input sets off a dispatch also when nothing is pending
FlushDue_at_eof(v, e) == e \/ (v # 0 /\ v % query_items_limit = 0)

\* handle_bbl.py 532-533
FlushDue(v, e) == v # 0 /\ (v % query_items_limit = 0 \/ e)

\* the ids start again with every batch
NextRefid_in_batch == Len(elems) + 1

\* handle_bbl.py 505-507: TOTAL is counted up and is the id of the record
NextRefid == stdt.TOTAL + 1

\* one iteration of the for loop of get_mr_codes, up to the decision to
\* dispatch (handle_bbl.py 493-533); xml_ok is the verdict of the
\* pre-flight parse of the record's request fragment
Consume ==
    /\ pc = "loop" /\ yielded # <<>>
    /\ LET item == Head(yielded) IN
       \E xml_ok \in BOOLEAN :
       /\ IF item.tag = "EOF"
          THEN /\ eof' = TRUE
               /\ ifile_end_lines' = Append(ifile_end_lines, TextSeg(item))
               /\ UNCHANGED <<out, stdt, elems, query_elems, valid>>
               /\ xml_ok
          ELSE IF item.tag \notin ITYPES
          THEN /\ IF item.tag # "end"
                  THEN /\ out' = Append(out, TextSeg(item))
                       /\ UNCHANGED ifile_end_lines
                  ELSE /\ ifile_end_lines' = Append(ifile_end_lines,
                                                    TextSeg(item))
                       /\ UNCHANGED out
               /\ UNCHANGED <<eof, stdt, elems, query_elems, valid>>
               /\ xml_ok
          ELSE IF Accepts(valid)
          THEN LET refid == NextRefid
                   rec == [item.rec EXCEPT !.refid = refid]
                   asked == ~rec.orig_mrid
                   errno == IF xml_ok THEN 0 ELSE EXPAT_ERRNO
               IN /\ stdt' = [stdt EXCEPT !.TOTAL = refid]
                  /\ IF asked
                     THEN /\ elems' = Append(elems, [rec EXCEPT
                                         !.errno = Some(errno),
                                         !.rejected = ~xml_ok,
                                         !.seq = item.seq])
                          /\ query_elems' = IF xml_ok
                                            THEN Append(query_elems, refid)
                                            ELSE query_elems
                          /\ valid' = IF xml_ok THEN valid + 1 ELSE valid
                     ELSE /\ elems' = Append(elems,
                                             [rec EXCEPT !.seq = item.seq])
                          /\ UNCHANGED <<query_elems, valid>>
                          /\ xml_ok
                  /\ UNCHANGED <<eof, ifile_end_lines, out>>
          ELSE /\ UNCHANGED <<eof, ifile_end_lines, out, stdt, elems,
                              query_elems, valid>>
               /\ xml_ok
    /\ yielded' = Tail(yielded)
    /\ pc' = IF FlushDue(valid', eof') THEN "query" ELSE "loop"
    /\ UNCHANGED <<conf_vars, gen_vars, qerrno, nqueries, last_flush,
                   finalized, sleeps>>


\* ---- QueryHandler.query -------------------------------------------------
\* what the service does with one fragment it was sent: it answers with an
\* item that reports a match, one that reports no match, one that does not
\* parse, or with no item for it
Answers == {"match", "nomatch", "malformed", "absent"}

\* QueryHandler._analyze_xml on the item of a record of the open batch
analyze_xml(e, answer) ==
    IF answer = "match" THEN [e EXCEPT !.mrid = TRUE]
    ELSE IF answer = "nomatch" THEN [e EXCEPT !.errno = Some(NOT_FOUND_ERRNO)]
    ELSE e

\* QueryHandler.errno (a field that every method writes before it reads it)
\* at the end of query() for an answered request
\* (handle_query.py 342-357, 172-176): the batch_error marker sets it first,
\* every item that does not parse overwrites it
AnsweredErrno(batch_error, answer) ==
    IF \E i \in DOMAIN answer : answer[i] = "malformed" THEN EXPAT_ERRNO
    ELSE IF batch_error THEN BATCH_ERROR_ERRNO
    ELSE 0

\* handle_query.py 251-272: the codes _send_query leaves in qcode when the
\* request raised, the status was not 200, or the body lacks the XML heading
FailureCodes == {HTML_FAILED} \cup (StatusCodes \ {HTML_OK})

\* a call of query(): the fragments sent, what came back, and the
\* refs_container it leaves (elems, qerrno)
QueryResult(result, batch_error, answer, es, qe) ==
    [ids |-> query_elems, result |-> result, batch_error |-> batch_error,
     answer |-> answer, elems |-> es, qerrno |-> qe]

NoQuery == [ids |-> <<>>, result |-> "none", batch_error |-> FALSE,
            answer |-> <<>>, elems |-> elems, qerrno |-> qerrno]

NoAnswer == [i \in Range(query_elems) |-> "absent"]

\* query() with the lookups disabled: _send_query returns at once
QuerySkipped == {QueryResult("skipped", FALSE, NoAnswer, elems, qerrno)}

\* query() when the request fails at transport level
QueryFailed ==
    {QueryResult("transport", FALSE, NoAnswer, elems, Some(qcode)) :
       qcode \in FailureCodes}

\* query() when the service answers with status 200 and an XML body
QueryAnswered ==
    {QueryResult("answered", x[1], x[2],
                 [i \in 1..Len(elems) |->
                    IF elems[i].refid \in DOMAIN x[2]
                    THEN analyze_xml(elems[i], x[2][elems[i].refid])
                    ELSE elems[i]],
                 Some(AnsweredErrno(x[1], x[2]))) :
       x \in BOOLEAN \X [Range(query_elems) -> Answers]}

\* query() when the answer holds an item with an id of no open record:
\* get_elem_by_refid returns None and _analyze_xml raises AttributeError,
\* which nothing catches
QueryRaised ==
    {QueryResult("raised", x[1], x[2], elems, qerrno) :
       x \in BOOLEAN \X [Range(query_elems) -> Answers]}

\* the ways a call of QueryHandler.query can end
query ==
    IF disable_queries THEN QuerySkipped
    ELSE QueryFailed \cup QueryAnswered
         \cup (IF desync THEN QueryRaised ELSE {})

\* ---- transfer_to_file ---------------------------------------------------
\* RefsContainer.__init__
RefsContainer == [elems |-> <<>>, qerrno |-> None]

\* handle_bbl.py 405-406
FinalErrno(e, qe) == IF qe # Some(0) THEN qe ELSE e.errno

\* the disabled lookups are looked at before the identifier of the source
Outcome_disabled_first(e, qe) ==
    IF e.mrid THEN "found"
    ELSE IF FinalErrno(e, qe) = Some(NOT_FOUND_ERRNO) THEN "not_found"
    ELSE IF disable_queries THEN "skip_disabled"
    ELSE IF e.orig_mrid THEN "skip_mr_present"
    ELSE "query_error"

\* every error code that is not 0 counts as "no match"
Outcome_any_errno(e, qe) ==
    IF e.mrid THEN "found"
    ELSE IF FinalErrno(e, qe) # Some(0) /\ FinalErrno(e, qe) # None
         THEN "not_found"
    ELSE IF e.orig_mrid THEN "skip_mr_present"
    ELSE IF disable_queries THEN "skip_disabled"
    ELSE "query_error"

\* handle_bbl.py 413-434: the branch that finalizes the record
Outcome(e, qe) ==
    IF e.mrid THEN "found"
    ELSE IF FinalErrno(e, qe) = Some(NOT_FOUND_ERRNO) THEN "not_found"
    ELSE IF e.orig_mrid THEN "skip_mr_present"
    ELSE IF disable_queries THEN "skip_disabled"
    ELSE "query_error"

\* handle_bbl.py 459-461
CountedSuccess(e, qe) ==
    FinalErrno(e, qe) = Some(0) /\ qe = Some(0) /\ ~e.orig_mrid

\* the whole of transfer_to_file; q is the query() call that preceded it,
\* NoQuery if there was none
transfer_to_file(q) ==
    LET es == q.elems
        member(e) == [refid |-> e.refid, outcome |-> Outcome(e, q.qerrno),
                      success |-> CountedSuccess(e, q.qerrno),
                      mrid |-> e.mrid,
                      orig_mrid |-> e.orig_mrid, rejected |-> e.rejected,
                      sent |-> e.refid \in Range(q.ids),
                      answer |-> IF e.refid \in DOMAIN q.answer
                                 THEN q.answer[e.refid] ELSE "absent"]
        CountOf(outcomes) ==
            Cardinality({i \in 1..Len(es) :
                           Outcome(es[i], q.qerrno) \in outcomes})
        successes ==
            Cardinality({i \in 1..Len(es) : CountedSuccess(es[i], q.qerrno)})
    IN
    /\ out' = out \o [i \in 1..Len(es) |-> RecSeg(es[i], es[i].seq)]
                  \o (IF eof THEN ifile_end_lines ELSE <<>>)
    /\ ifile_end_lines' = IF eof THEN <<>> ELSE ifile_end_lines
    /\ stdt' = [stdt EXCEPT
                  !.NOT_FOUND = @ + CountOf({"not_found"}),
                  !.SKIP = @ + CountOf({"skip_mr_present", "skip_disabled"}),
                  !.ERROR = @ + CountOf({"query_error"}),
                  !.SUCCESS = @ + successes]
    /\ last_flush' = IF es = <<>> THEN last_flush
                     ELSE [result |-> q.result,
                           batch_error |-> q.batch_error,
                           nsent |-> Len(q.ids),
                           members |-> [i \in 1..Len(es) |-> member(es[i])]]
    /\ finalized' = finalized \o [i \in 1..Len(es) |-> es[i].refid]
    /\ elems' = RefsContainer.elems
    /\ qerrno' = RefsContainer.qerrno

\* an item with an id of no open record is passed over
analyze_raises_never(q) == FALSE

\* handle_query.py 312-328, handle_refs.py 423-425: get_elem_by_refid gave
\* None and both branches of _analyze_xml read an attribute of it
analyze_raises(q) == q.result = "raised"

\* the delay is taken after every dispatch
cooldown_always(e) == TRUE

\* handle_bbl.py 537-538: time.sleep(self.wait) unless the input has ended
cooldown(e) == ~e

\* handle_bbl.py 534-538: the batch is dispatched and reconciled
Flush ==
    /\ pc = "query"
    /\ nqueries' = nqueries + 1
    /\ \E q \in query :
         IF analyze_raises(q)
         THEN /\ pc' = "aborted"
              /\ last_flush' = [result |-> q.result,
                                batch_error |-> q.batch_error,
                                nsent |-> Len(q.ids), members |-> <<>>]
              /\ UNCHANGED <<out, ifile_end_lines, stdt, finalized,
                             elems, qerrno, query_elems, valid, sleeps>>
         ELSE /\ transfer_to_file(q)
              /\ query_elems' = <<>>
              /\ valid' = 0
              /\ sleeps' = IF cooldown(eof) THEN sleeps + 1 ELSE sleeps
              /\ pc' = "loop"
    /\ UNCHANGED <<conf_vars, gen_vars, yielded, eof>>

\* ---- the end of get_mr_codes (handle_bbl.py 540-550) --------------------
GenInit(req) ==
    /\ require_env = req
    /\ pos = 1
    /\ gather = ~req
    /\ search = TRUE
    /\ multiline = <<>>
    /\ element = RefElement
    /\ envstatus = "none"
    /\ gen_done = FALSE
    /\ yielded = <<>>
    /\ nyielded = 0
    /\ emitted = <<>>

\* the second pass starts with the output of the first pass
Rescan_keeps_output ==
    /\ pc = "loop" /\ gen_done /\ yielded = <<>>
    /\ stdt.TOTAL = 0 /\ require_env
    /\ eof' = FALSE
    /\ ifile_end_lines' = <<>>
    /\ valid' = 0
    /\ require_env' = FALSE
    /\ pos' = 1
    /\ gather' = TRUE
    /\ search' = TRUE
    /\ multiline' = <<>>
    /\ element' = RefElement
    /\ envstatus' = "none"
    /\ gen_done' = FALSE
    /\ yielded' = <<>>
    /\ nyielded' = 0
    /\ emitted' = <<>>
    /\ UNCHANGED <<conf_vars, elems, qerrno, query_elems, stdt, pc,
                   nqueries, last_flush, finalized, sleeps, out>>

\* no record was found inside an environment: search the whole file
Rescan ==
    /\ pc = "loop" /\ gen_done /\ yielded = <<>>
    /\ stdt.TOTAL = 0 /\ require_env
    /\ eof' = FALSE
    /\ ifile_end_lines' = <<>>
    /\ out' = <<>>
    /\ valid' = 0
    /\ require_env' = FALSE
    /\ pos' = 1
    /\ gather' = TRUE
    /\ search' = TRUE
    /\ multiline' = <<>>
    /\ element' = RefElement
    /\ envstatus' = "none"
    /\ gen_done' = FALSE
    /\ yielded' = <<>>
    /\ nyielded' = 0
    /\ emitted' = <<>>
    /\ UNCHANGED <<conf_vars, elems, qerrno, query_elems, stdt, pc,
                   nqueries, last_flush, finalized, sleeps>>

Finish ==
    /\ pc = "loop" /\ gen_done /\ yielded = <<>>
    /\ ~(stdt.TOTAL = 0 /\ require_env)
    /\ transfer_to_file(NoQuery)
    /\ pc' = "done"
    /\ UNCHANGED <<conf_vars, gen_vars, yielded, valid, eof, query_elems,
                   nqueries, sleeps>>

\* ---- the run ------------------------------------------------------------
Docs == UNION {[1..n -> Kinds] : n \in 0..MaxLines}

InitRun ==
    /\ doc \in Docs
    /\ arg_require_env \in BOOLEAN
    /\ itemno \in ItemNos
    /\ disable_queries \in BOOLEAN
    /\ GenInit(arg_require_env)
    /\ valid = 0
    /\ eof = FALSE
    /\ ifile_end_lines = <<>>
    /\ out = <<>>
    /\ elems = RefsContainer.elems
    /\ qerrno = RefsContainer.qerrno
    /\ query_elems = <<>>
    /\ stdt = [TOTAL |-> 0, SUCCESS |-> 0, NOT_FOUND |-> 0, SKIP |-> 0,
               ERROR |-> 0]
    /\ pc = "loop"
    /\ nqueries = 0
    /\ last_flush = [result |-> "none", batch_error |-> FALSE, nsent |-> 0,
                     members |-> <<>>]
    /\ finalized = <<>>
    /\ sleeps = 0
    /\ call = NoCall
    /\ ret = NoCall
    /\ first_pass = NoPass

\* the service answers exactly the fragments it was sent
Init == InitRun /\ desync = FALSE

\* the service may also answer with an id that no open record has
InitDesync == InitRun /\ desync \in BOOLEAN

Next ==
    \/ GatherLine
    \/ GatherEOF
    \/ Consume
    \/ Flush
    \/ Rescan
    \/ Finish

Spec == Init /\ [][Next]_vars

SpecDesync == InitDesync /\ [][Next]_vars


\* ---- the program run again on the file it wrote --------------------------
IsRecord(item) == item.tag \in ITYPES

\* the lines of the written file (HandleBBL.run, handle_bbl.py 585-590), as
\* the lines of the input they are copies of
OutLines == Flatten([j \in 1..Len(out) |-> out[j].text])

\* where in the written file the j-th piece of the accumulator begins
OutStart(j) == Len(Flatten([i \in 1..(j - 1) |-> out[i].text])) + 1

\* the run is over and the file it wrote is given to a new run with the
\* same arguments
RunAgain ==
    /\ pc = "done" /\ first_pass = NoPass
    /\ first_pass' =
         [recs |-> LET rs == SelectSeq(emitted, IsRecord) IN
                   [i \in 1..Len(rs) |->
                      [reftype |-> rs[i].rec.reftype,
                       start |-> Flatten(rs[i].rec.orig_lines)[1],
                       nlines |-> Len(Flatten(rs[i].rec.orig_lines)),
                       written |->
                         LET j == CHOOSE j \in 1..Len(out) :
                                    out[j].kind = "rec"
                                    /\ out[j].seq = rs[i].seq
                         IN OutStart(j)]],
          origin |-> OutLines,
          nout |-> Len(OutLines)]
    /\ doc' = [j \in 1..Len(OutLines) |-> doc[OutLines[j]]]
    /\ require_env' = arg_require_env
    /\ pos' = 1
    /\ gather' = ~arg_require_env
    /\ search' = TRUE
    /\ multiline' = <<>>
    /\ element' = RefElement
    /\ envstatus' = "none"
    /\ gen_done' = FALSE
    /\ yielded' = <<>>
    /\ nyielded' = 0
    /\ emitted' = <<>>
    /\ valid' = 0
    /\ eof' = FALSE
    /\ ifile_end_lines' = <<>>
    /\ out' = <<>>
    /\ elems' = RefsContainer.elems
    /\ qerrno' = RefsContainer.qerrno
    /\ query_elems' = <<>>
    /\ stdt' = [TOTAL |-> 0, SUCCESS |-> 0, NOT_FOUND |-> 0, SKIP |-> 0,
                ERROR |-> 0]
    /\ pc' = "loop"
    /\ nqueries' = 0
    /\ last_flush' = [result |-> "none", batch_error |-> FALSE, nsent |-> 0,
                      members |-> <<>>]
    /\ finalized' = <<>>
    /\ sleeps' = 0
    /\ UNCHANGED run_vars

\* no lookup is made, so no identifier is inserted
InitAgain == InitRun /\ desync = FALSE /\ disable_queries

NextAgain == Next \/ RunAgain

SpecAgain == InitAgain /\ [][NextAgain]_vars

\* ======================================================================
\* RefHandler: the static methods, called on their own
\* ======================================================================
\* A text is a sequence of atoms: a word without any of the characters that
\* the methods look for, or one such character.
MaxKeyLines == 3

RECURSIVE LStrip(_, _)
LStrip(s, chars) ==
    IF s # <<>> /\ Head(s) \in chars THEN LStrip(Tail(s), chars) ELSE s

RECURSIVE RStrip(_, _)
RStrip(s, chars) ==
    IF s # <<>> /\ Last(s) \in chars THEN RStrip(Front(s), chars) ELSE s

\* str.strip(chars)
Strip(s, chars) == RStrip(LStrip(s, chars), chars)

\* the characters of '\n\t "{},' (handle_refs.py 126, 140, 158)
VALUE_STRIP == {"\n", "\t", " ", "\"", "{", "}", ","}

\* the characters of ", " (handle_refs.py 157, 169)
COMMA_STRIP == {",", " "}

\* the slots come in another order
KEYS_IN_ORDER_year_first ==
    << {"year", "date"}, {"title", "maintitle"},
       {"journal", "journaltitle", "fjournal", "booktitle"}, {"volume"},
       {"number", "series"}, {"pages"}, {"author"},
       {"issn", "isrn", "isbn"} >>

\* InputRefKeys.KEYS_IN_ORDER
KEYS_IN_ORDER ==
    << {"author"}, {"title", "maintitle"},
       {"journal", "journaltitle", "fjournal", "booktitle"}, {"volume"},
       {"number", "series"}, {"pages"}, {"year", "date"},
       {"issn", "isrn", "isbn"} >>

\* str.lower() on the keys in use
Lower(k) == IF k = "Author" THEN "author" ELSE k

\* handle_refs.py 134-136: the slots that hold the key (the first counts)
KeyIndices(user_key) ==
    {index \in 1..Len(KEYS_IN_ORDER) : user_key \in KEYS_IN_ORDER[index]}

\* A line of a record is [key, value]: RE_KEY_VALUE matched with these two
\* groups, or key = "" and it did not match and value is the whole line.
KeyLine(k, v) == [key |-> k, value |-> v]

\* the loop of extract_keys_data (handle_refs.py 125-160); ref_data maps a
\* slot to the text gathered for it, <<>> for a slot that is not in the dict
RECURSIVE ExtractLoop(_, _, _, _)
ExtractLoop(lines, ref_data, current_key_index, current_user_key) ==
    IF lines = <<>> THEN ref_data
    ELSE
    LET line == Head(lines)
        rest == Tail(lines)
        user_key == Lower(line.key)
        indices == KeyIndices(user_key)
        index == Min1(indices)
        part == Strip(line.value, VALUE_STRIP) \o <<",", " ">>
    IN
    IF line.key = "" /\ Strip(line.value, VALUE_STRIP) = <<>>
    THEN ExtractLoop(rest, ref_data, current_key_index, current_user_key)
    ELSE IF line.key # ""
    THEN IF indices # {}
         THEN IF ref_data[index] = <<>>
              THEN ExtractLoop(rest, [ref_data EXCEPT ![index] = part],
                               index, user_key)
              ELSE IF user_key = current_user_key
              THEN ExtractLoop(rest, [ref_data EXCEPT ![index] = @ \o part],
                               index, current_user_key)
              ELSE ExtractLoop(rest, ref_data, 0, "")
         ELSE ExtractLoop(rest, ref_data, 0, "")
    ELSE IF current_key_index # 0
    THEN ExtractLoop(rest,
             [ref_data EXCEPT ![current_key_index] =
                 Strip(@, COMMA_STRIP) \o <<" ">>
                     \o Strip(line.value, VALUE_STRIP) \o <<",", " ">>],
             current_key_index, current_user_key)
    ELSE ExtractLoop(rest, ref_data, current_key_index, current_user_key)

\* RefHandler.extract_keys_data
extract_keys_data(lines) ==
    LET ref_data == ExtractLoop(lines, [i \in 1..Len(KEYS_IN_ORDER) |-> <<>>],
                                0, "")
        \* handle_refs.py 167-169: the values by ascending slot
        sorted == [i \in 1..Len(KEYS_IN_ORDER) |-> ref_data[i]]
    IN Strip(Flatten(sorted), COMMA_STRIP)

\* the lines the method is called with
KeyLines ==
    { KeyLine("author", <<"{", "Smith", ",", " ", "J.", "}", ",", "\n">>),
      KeyLine("title", <<"{", "On", " ", "Widgets", "}", ",", "\n">>),
      KeyLine("year", <<"{", "1999", "}", ",", "\n">>),
      KeyLine("Author", <<"Doe", "\n">>),
      KeyLine("date", <<"\"", "2001", "\"", "\n">>),
      KeyLine("note", <<"{", "n", "}", "\n">>),
      KeyLine("", <<" ", "more", ",", "\n">>),
      KeyLine("", <<"}", "\n">>) }

ExtractCalls ==
    {[op |-> "extract_keys_data", lines |-> ls] :
       ls \in UNION {[1..n -> KeyLines] : n \in 0..MaxKeyLines}}

ExtractKeysData ==
    /\ pc = "static" /\ call.op = "extract_keys_data" /\ ret = NoCall
    /\ ret' = [value |-> extract_keys_data(call.lines)]
    /\ UNCHANGED <<doc, arg_require_env, itemno, disable_queries, desync,
                   call, first_pass, gen_vars, yielded, cons_vars, pc>>

\* no file is being processed
NoRun ==
    /\ doc = <<>> /\ arg_require_env = FALSE /\ itemno = 1
    /\ disable_queries = TRUE /\ desync = FALSE
    /\ GenInit(FALSE)
    /\ valid = 0 /\ eof = FALSE /\ ifile_end_lines = <<>> /\ out = <<>>
    /\ elems = <<>> /\ qerrno = None /\ query_elems = <<>>
    /\ stdt = [TOTAL |-> 0, SUCCESS |-> 0, NOT_FOUND |-> 0, SKIP |-> 0,
               ERROR |-> 0]
    /\ nqueries = 0
    /\ last_flush = [result |-> "none", batch_error |-> FALSE, nsent |-> 0,
                     members |-> <<>>]
    /\ finalized = <<>> /\ sleeps = 0
    /\ first_pass = NoPass
    /\ pc = "static"

InitKeys == NoRun /\ call \in ExtractCalls /\ ret = NoCall

NextKeys == ExtractKeysData

SpecKeys == InitKeys /\ [][NextKeys]_vars

\* ---- RefElement.mrid, RefHandler.insert_mrid ----------------------------
MaxRefLen == 4

\* str.rjust(width, fill)
RECURSIVE RJust(_, _, _)
RJust(s, width, fill) ==
    IF Len(s) >= width THEN s ELSE RJust(<<fill>> \o s, width, fill)

\* the identifier is taken over as the service gave it
mrid_setter_as_given(mrid) == mrid

\* the setter of RefElement.mrid (handle_refs.py 360-375)
mrid_setter(mrid) == RJust(LStrip(mrid, {"M", "R"}), 7, "0")

\* RefTypes.ITYPES: the closing token and the identifier format of a family
\* (constants.py 78-97); the format as the atoms before and after the number
REF_ENDING ==
    [bibtex |-> "}", amsrefs |-> "}", bibitem |-> "\\endbibitem"]

MR_FORMAT ==
    [bibtex |-> [pre |-> <<",", "\n", "MRNUMBER={">>,
                 post |-> <<"}", ",", "\n">>],
     amsrefs |-> [pre |-> <<",", "\n", "review={\\MR{">>,
                  post |-> <<"}", "}", ",", "\n">>],
     bibitem |-> [pre |-> <<"\n", "\\MR{">>, post |-> <<"}", "\n">>]]

\* the characters str.strip() and str.lstrip() take off
WHITESPACE == {" ", "\n", "\t"}

\* the characters of '\n\t ,' (handle_refs.py 206)
ENDING_STRIP == {"\n", "\t", " ", ","}

\* the first occurrence is taken
Find(s, token) ==
    Min1({i \in 1..Len(s) : s[i] = token})

\* str.rfind(token): the index of the last occurrence, 0 if there is none
RFind(s, token) ==
    IF \E i \in 1..Len(s) : s[i] = token
    THEN CHOOSE i \in 1..Len(s) :
            s[i] = token /\ \A j \in (i + 1)..Len(s) : s[j] # token
    ELSE 0

\* RE_PAR.search(s).start(): where the first two consecutive line ends
\* begin, 0 if there are none
ParagraphStart(s) ==
    Min1({i \in 1..(Len(s) - 1) : s[i] = "\n" /\ s[i + 1] = "\n"})

\* RE_LINEEND.sub('\n', s): a run of line ends becomes one
RECURSIVE SqueezeLineEnds(_)
SqueezeLineEnds(s) ==
    IF Len(s) < 2 THEN s
    ELSE IF s[1] = "\n" /\ s[2] = "\n" THEN SqueezeLineEnds(Tail(s))
    ELSE <<Head(s)>> \o SqueezeLineEnds(Tail(s))

\* RefHandler.insert_mrid (handle_refs.py 172-211)
insert_mrid(reftype, refstring, mrid) ==
    IF reftype \notin ITYPES
    THEN SqueezeLineEnds(refstring) \o <<"\\MR{">> \o mrid
             \o <<"}", "\n", "\n">>
    ELSE
    LET properties == MR_FORMAT[reftype]
        token_index == RFind(refstring, REF_ENDING[reftype])
        paragraph == ParagraphStart(refstring)
        ending_index == IF token_index # 0 THEN token_index ELSE paragraph
        mr_string == properties.pre \o mrid \o properties.post
                       \o (IF token_index = 0 /\ paragraph # 0
                           THEN <<"\n">> ELSE <<>>)
    IN IF ending_index # 0
       THEN Strip(SubSeq(refstring, 1, ending_index - 1), ENDING_STRIP)
              \o mr_string
              \o LStrip(SubSeq(refstring, ending_index, Len(refstring)),
                        WHITESPACE)
       ELSE Strip(refstring, WHITESPACE) \o mr_string \o <<"\n">>

\* the atoms of the reference texts the method is called with
RefAtoms == {"w", ",", " ", "\n", "}", "\\endbibitem"}

RefStrings == UNION {[1..n -> RefAtoms] : n \in 0..MaxRefLen}

\* the identifiers as the service gives them: "MR123", "7654321",
\* "MR12345678" and "RM7"
MridsGiven == { <<"M", "R", "1", "2", "3">>,
                <<"7", "6", "5", "4", "3", "2", "1">>,
                <<"M", "R", "1", "2", "3", "4", "5", "6", "7", "8">>,
                <<"R", "M", "7">> }

InsertMridCalls ==
    {[op |-> "insert_mrid", reftype |-> t, refstring |-> r, mrid |-> m] :
       t \in ITYPES \cup {"none"}, r \in RefStrings, m \in MridsGiven}

\* handle_bbl.py 413-414 for a record whose mrid the answer has set
InsertMrid ==
    /\ pc = "static" /\ call.op = "insert_mrid" /\ ret = NoCall
    /\ ret' = [value |-> insert_mrid(call.reftype, call.refstring,
                                     mrid_setter(call.mrid))]
    /\ UNCHANGED <<doc, arg_require_env, itemno, disable_queries, desync,
                   call, first_pass, gen_vars, yielded, cons_vars, pc>>

\* ---- RefHandler.insert_citekey -----------------------------------------
\* RefTypes: the output types (constants.py 70-75); "none" is None and
\* "other" a type that is none of them
OutputTypes == {"none", "tex", "bibtex", "ims", "amsrefs", "html", "other"}

\* The reference the service returned (<outref>) is None or has one of three
\* forms: a BibTeX entry "@article {key,text\n rest", an amsrefs entry
\* "\bib{key}{article}{text\n rest", or plain text " text rest\n".
Outrefs ==
    {None} \cup
    {[form |-> f, key |-> "MR1", text |-> t, rest |-> <<"body", "\n">>] :
       f \in {"bibtex", "amsrefs", "plain"}, t \in {<<>>, <<"t">>}}

OutrefText(o) ==
    IF o.form = "bibtex"
    THEN <<"@article", " ", "{", o.key, ",">> \o o.text \o <<"\n">> \o o.rest
    ELSE IF o.form = "amsrefs"
    THEN <<"\\bib", "{", o.key, "}", "{", "article", "}", "{">>
            \o o.text \o <<"\n">> \o o.rest
    ELSE <<" ">> \o o.text \o o.rest \o <<"\n">>

\* RE_BIBTEX.sub(r'\1 {%s,' % citekey, outref) on the stripped outref that
\* two line ends follow (handle_refs.py 263, 267-268): the match runs from
\* the entry type to the end of its line
SubBibtex(o, citekey) ==
    IF o.form = "bibtex"
    THEN <<"@article", " ", "{", citekey, ",", "\n">>
            \o RStrip(o.rest, WHITESPACE) \o <<"\n", "\n">>
    ELSE Strip(OutrefText(o), WHITESPACE) \o <<"\n", "\n">>

\* RE_AMSREFS.sub(r'\\bib\0{%s}{\2}' % citekey, outref) (handle_refs.py
\* 269-270): \0 in the template is the character NUL, and the match runs
\* to the end of the line
SubAmsrefs(o, citekey) ==
    IF o.form = "amsrefs"
    THEN <<"\\bib", "NUL", "{", citekey, "}", "{", "article", "}", "\n">>
            \o RStrip(o.rest, WHITESPACE) \o <<"\n", "\n">>
    ELSE Strip(OutrefText(o), WHITESPACE) \o <<"\n", "\n">>

\* the header takes the key of the family of the source
insert_citekey_by_family(outputtype, outref, citekey, biblabel, querystring, reftype) ==
    IF outputtype = "bibtex" /\ outref = None
    THEN Some(<<"@MISC {", IF reftype = "bibtex" THEN citekey ELSE "1",
                ",\n   NOTE = {", "Not Found!", "}\n}\n\n">>)
    ELSE None

\* RefHandler.insert_citekey (handle_refs.py 213-273); reftype is the
\* family of the record the caller (handle_bbl.py 410-412) passes the
\* fields of, and no argument of the method.  The result is None or
\* Some(text).
insert_citekey(outputtype, outref, citekey, biblabel, querystring, reftype) ==
    LET label == IF biblabel = None THEN <<>> ELSE biblabel
        found == Strip(OutrefText(outref), WHITESPACE) \o <<"\n", "\n">>
    IN
    IF outputtype = "none" THEN None
    ELSE IF outref = None
    THEN IF outputtype = "tex"
         THEN Some(<<"\\bibitem">> \o label
                     \o <<"{", citekey, "}\n   ", "Not Found!", "\n\n">>)
         ELSE IF outputtype = "bibtex"
         THEN Some(<<"@MISC {", citekey, ",\n   NOTE = {", "Not Found!",
                     "}\n}\n\n">>)
         ELSE IF outputtype = "ims"
         THEN Some(<<"@MISC {", citekey, ",\n   HOWPUBLISHED = {">>
                     \o querystring \o <<"},\n}\n\n">>)
         ELSE IF outputtype = "amsrefs"
         THEN Some(<<"\\bib{", citekey, "}{misc}{\n    note = {",
                     "Not Found!", "}\n}\n\n">>)
         ELSE IF outputtype = "html"
         THEN Some(<<"<!-- ", citekey, " -->\n", "Not Found!",
                     "\n<br/><br/>\n\n">>)
         ELSE None
    ELSE IF outputtype = "tex"
    THEN Some(<<"\\bibitem">> \o label \o <<"{", citekey, "}\n">> \o found)
    ELSE IF outputtype \in {"bibtex", "ims"}
    THEN Some(SubBibtex(outref, citekey))
    ELSE IF outputtype = "amsrefs"
    THEN Some(SubAmsrefs(outref, citekey))
    ELSE IF outputtype = "html"
    THEN Some(<<"<!-- ", citekey, " -->\n">> \o found \o <<"<br/><br/>\n">>)
    ELSE None

InsertCitekeyCalls ==
    {[op |-> "insert_citekey", outputtype |-> ot, outref |-> o,
      citekey |-> k, biblabel |-> b, querystring |-> <<"q">>,
      reftype |-> t] :
       ot \in OutputTypes, o \in Outrefs, k \in {"foo", "1"},
       b \in {None, <<"[L]">>}, t \in ITYPES}

\* handle_bbl.py 410-412
InsertCitekey ==
    /\ pc = "static" /\ call.op = "insert_citekey" /\ ret = NoCall
    /\ ret' = [value |-> insert_citekey(call.outputtype, call.outref,
                             call.citekey, call.biblabel, call.querystring,
                             call.reftype)]
    /\ UNCHANGED <<doc, arg_require_env, itemno, disable_queries, desync,
                   call, first_pass, gen_vars, yielded, cons_vars, pc>>

InitRefs ==
    NoRun /\ call \in InsertMridCalls \cup InsertCitekeyCalls /\ ret = NoCall

NextRefs == InsertMrid \/ InsertCitekey

SpecRefs == InitRefs /\ [][NextRefs]_vars

\* ======================================================================
\* Properties
\* ======================================================================
\* the records among the items the generator yielded in this pass
EmittedRecs == {i \in 1..Len(emitted) : emitted[i].tag \in ITYPES}

\* what an item carries of the document
Payload(item) == IF item.tag \in ITYPES THEN Flatten(item.rec.orig_lines)
                 ELSE item.text

Members == {last_flush.members[j] : j \in 1..Len(last_flush.members)}

\* C1: whenever get_mr_codes calls query(), the outgoing set query_elems
\* holds at least 1 and at most min(L, 100) request fragments, L being the
\* configured item limit.
C1_DispatchWithinLimit ==
    pc = "query" =>
        /\ Len(query_elems) >= 1
        /\ Len(query_elems) <= Min(itemno, QUERY_ITEMS_LIMIT)

\* a batch goes out because the item limit is reached, before end of input
C1_Witness ==
    pc = "query" /\ ~eof /\ Len(query_elems) = 2 /\ itemno = 2

\* C2: every record the segmentation yields is finalized by
\* transfer_to_file and appended to the output accumulator exactly once
\* over the run: never twice at any moment, and once when the run is done.
C2_FinalizedExactlyOnce ==
    LET copies(i) == Cardinality({j \in 1..Len(out) :
                        out[j].kind = "rec" /\ out[j].seq = emitted[i].seq})
    IN /\ \A i \in EmittedRecs : copies(i) <= 1
       /\ \A j, k \in 1..Len(finalized) :
             finalized[j] = finalized[k] => j = k
       /\ pc = "done" =>
             /\ \A i \in EmittedRecs : copies(i) = 1
             /\ Len(finalized) = Cardinality(EmittedRecs)
             /\ Range(finalized) = 1..stdt.TOTAL

\* a finished run with a dispatched record, a record that has its
\* identifier already and a record whose fragment failed validation
C2_Witness ==
    /\ pc = "done" /\ Len(finalized) = 3 /\ nqueries >= 1
    /\ \E m \in Members : m.orig_mrid \/ m.rejected

\* C3: in the final output, pass-through text and finalized records stand
\* in the order in which the segmentation yielded them from the source.
C3_OutputInSourceOrder ==
    pc = "done" =>
        \A j \in 1..(Len(out) - 1) : out[j].seq < out[j + 1].seq

\* C4: when the segmentation has ended, the payloads of the items it
\* yielded (pass-through text, records' orig_lines, the end-of-input text),
\* concatenated in the order of emission, are the input document.
C4_SegmentationLosesNothing ==
    gen_done =>
        Flatten([i \in 1..Len(emitted) |-> Payload(emitted[i])])
            = [i \in 1..Len(doc) |-> i]

\* C5: the concatenated orig_lines of every yielded record are a
\* contiguous span of the document, in the order of the document.
C5_RecordIsContiguousSpan ==
    \A i \in EmittedRecs :
        LET t == Flatten(emitted[i].rec.orig_lines) IN
        \A j \in 1..(Len(t) - 1) : t[j + 1] = t[j] + 1

\* C6: a record whose source holds an identifier has no fragment in any
\* dispatched batch and is finalized as skipped with the reason "MR already
\* present" (not the reason of the disabled lookups), whatever happened to
\* the batch it is flushed with.
C6_PresentIdentifierSkipped ==
    /\ pc = "query" =>
          \A i \in 1..Len(elems) :
              elems[i].orig_mrid => elems[i].refid \notin Range(query_elems)
    /\ \A m \in Members :
          m.orig_mrid => ~m.sent /\ m.outcome = "skip_mr_present"

\* such a record is flushed with a batch whose lookup failed at transport
\* level, or in a run with the lookups disabled
C6_Witness ==
    /\ \E m \in Members : m.orig_mrid
    /\ \E m \in Members : m.sent
    /\ last_flush.result \in {"transport", "skipped"}

\* C7: when the lookup of a batch of N dispatched records fails at
\* transport level, each of the N records is finalized as query_error (N
\* query_error outcomes for them) and no record of the flush is finalized
\* as found or not_found or gets an identifier.
C7_TransportFailureAllQueryError ==
    last_flush.result = "transport" =>
        /\ Cardinality({j \in 1..Len(last_flush.members) :
                          /\ last_flush.members[j].sent
                          /\ last_flush.members[j].outcome = "query_error"})
             = last_flush.nsent
        /\ \A m \in Members :
              /\ m.outcome \notin {"found", "not_found"}
              /\ ~m.mrid
              /\ ~m.success

C7_Witness ==
    last_flush.result = "transport" /\ last_flush.nsent = 2

\* C8: when the answer carries a batch_error marker, every dispatched
\* record of the batch is finalized as query_error and none gets an
\* identifier, also when the answer holds items that report a match.
C8_BatchErrorAllQueryError ==
    (last_flush.result = "answered" /\ last_flush.batch_error) =>
        \A m \in Members :
            m.sent => m.outcome = "query_error" /\ ~m.mrid

\* C9: an item of the answer that does not parse leaves the outcome of the
\* other records of the batch as it is without it: a record whose own item
\* reports a match is finalized and counted as found, one whose own item
\* reports no match is finalized as not_found.
C9_MalformedItemIsolated ==
    (/\ last_flush.result = "answered"
     /\ ~last_flush.batch_error
     /\ \E m \in Members : m.sent /\ m.answer = "malformed") =>
        \A m \in Members :
            /\ (m.sent /\ m.answer = "match") =>
                   (m.outcome = "found" /\ m.success)
            /\ (m.sent /\ m.answer = "nomatch") => m.outcome = "not_found"

\* C10: an item of the answer whose id matches no record of the open batch
\* does not abort the run.
C10_ForeignIdDoesNotAbort ==
    pc # "aborted"

\* C11: the refid of a record of the open batch stays what it was when the
\* record was accepted, up to the flush that finalizes it under that refid;
\* and an answer that holds an item with an id of no record of the open
\* batch ends the run with an error: nothing of it is attached to a record,
\* nothing is written, the run does not go on.
C11_IdStableAndForeignIdRaises ==
    [][/\ \A i \in 1..Len(elems) :
            /\ i <= Len(elems') => elems'[i].refid = elems[i].refid
            /\ (elems' = <<>> /\ pc' # "aborted") =>
                   /\ Len(last_flush'.members) = Len(elems)
                   /\ last_flush'.members[i].refid = elems[i].refid
       /\ last_flush'.result = "raised" =>
            /\ pc' = "aborted"
            /\ elems' = elems /\ out' = out /\ finalized' = finalized
            /\ stdt' = stdt]_vars

\* the service answered a batch of two records with an item of a foreign id
C11_Witness ==
    /\ last_flush.result = "raised" /\ pc = "aborted"
    /\ Len(elems) = 2 /\ elems[1].refid = 1 /\ elems[2].refid = 2

\* C12: in every yielded record cleaned_lines and query_lines have each as
\* many entries as orig_lines.
C12_LinesAligned ==
    \A i \in EmittedRecs :
        /\ Len(emitted[i].rec.cleaned_lines) = Len(emitted[i].rec.orig_lines)
        /\ Len(emitted[i].rec.query_lines) = Len(emitted[i].rec.orig_lines)

\* C13: the open batch refs_container.elems never holds more records than
\* the item limit, and a record is let into it only while the batch is
\* not due for dispatch: a batch that is due is emptied first.
C13_BatchWithinLimit ==
    /\ Len(elems) <= Min(itemno, QUERY_ITEMS_LIMIT)
    /\ pc = "query" => elems # <<>>
    /\ (pc = "loop" /\ valid = 0 /\ query_elems = <<>> /\ nqueries > 0) =>
          \A i \in 1..Len(elems) : elems[i].refid \notin Range(finalized)

\* the slot of a line that has a key, 0 if its key is in no slot
SlotOf(line) == Min1(KeyIndices(Lower(line.key)))

\* the values of the lines, by ascending slot, each followed by ", ", and
\* the whole without commas and blanks at its ends
CanonicalJoin(lines) ==
    Strip(Flatten([s \in 1..Len(KEYS_IN_ORDER) |->
              IF \E i \in 1..Len(lines) : SlotOf(lines[i]) = s
              THEN LET i == CHOOSE i \in 1..Len(lines) : SlotOf(lines[i]) = s
                   IN Strip(lines[i].value, VALUE_STRIP) \o <<",", " ">>
              ELSE <<>>]), COMMA_STRIP)

\* C14: for lines that have each a key, the keys in pairwise distinct
\* slots, extract_keys_data returns the values joined in the order of the
\* slots, whatever the order of the lines: "Smith, J., On Widgets, 1999"
\* for the author, title and year lines in each of their six orders.
C14_ExtractOrderInvariant ==
    (/\ ret # NoCall /\ call.op = "extract_keys_data"
     /\ \A i \in 1..Len(call.lines) : SlotOf(call.lines[i]) # 0
     /\ \A i, j \in 1..Len(call.lines) :
           SlotOf(call.lines[i]) = SlotOf(call.lines[j]) => i = j) =>
        /\ ret.value = CanonicalJoin(call.lines)
        /\ {SlotOf(call.lines[i]) : i \in 1..Len(call.lines)} = {1, 2, 7}
           /\ (\E i \in 1..3 : call.lines[i].key = "author")
           /\ (\E i \in 1..3 : call.lines[i].key = "year")
           => ret.value = <<"Smith", ",", " ", "J.", ",", " ",
                            "On", " ", "Widgets", ",", " ", "1999">>

\* the call with the lines in the order year, title, author has returned
C14_Witness ==
    /\ ret # NoCall /\ call.op = "extract_keys_data"
    /\ Len(call.lines) = 3
    /\ call.lines[1].key = "year" /\ call.lines[2].key = "title"
    /\ call.lines[3].key = "author"
    /\ ret.value = <<"Smith", ",", " ", "J.", ",", " ",
                     "On", " ", "Widgets", ",", " ", "1999">>

\* the places in a text where an identifier token opens
MrOpenings(s) ==
    {i \in 1..Len(s) : s[i] \in {"\\MR{", "MRNUMBER={", "review={\\MR{"}}

\* C15: for a bibitem record without an identifier and the answer "MR123",
\* the text insert_mrid returns holds exactly one identifier token, its
\* value is "0000123", and when the record has the closing token
\* \endbibitem the identifier line stands immediately before the last one
\* and no comma is left before the identifier line.
C15_IdentifierPaddedBeforeEnding ==
    (/\ ret # NoCall /\ call.op = "insert_mrid"
     /\ call.reftype = "bibitem"
     /\ call.mrid = <<"M", "R", "1", "2", "3">>) =>
        /\ Cardinality(MrOpenings(ret.value)) = 1
        /\ LET k == CHOOSE i \in MrOpenings(ret.value) : TRUE
               v == ret.value
           IN /\ SubSeq(v, k + 1, k + 8)
                   = <<"0", "0", "0", "0", "1", "2", "3", "}">>
              /\ v[k - 1] = "\n"
              /\ (\E i \in 1..Len(call.refstring) :
                     call.refstring[i] = "\\endbibitem") =>
                    /\ k > 2 => v[k - 2] # ","
                    /\ v[k + 9] = "\n" /\ v[k + 10] = "\\endbibitem"
                    /\ \A i \in (k + 11)..Len(v) : v[i] # "\\endbibitem"

\* the record "w,\endbibitem" got the identifier of the answer "MR123"
C15_Witness ==
    /\ ret # NoCall /\ call.op = "insert_mrid" /\ call.reftype = "bibitem"
    /\ call.mrid = <<"M", "R", "1", "2", "3">>
    /\ call.refstring = <<"w", ",", "\\endbibitem">>
    /\ ret.value = <<"w", "\n", "\\MR{", "0", "0", "0", "0", "1", "2", "3",
                     "}", "\n", "\\endbibitem">>

\* C16: with no reference from the service, the cite key "foo" and the
\* output type bibtex, insert_citekey returns a placeholder entry whose
\* header holds exactly the key "foo" and whose body says "Not Found!",
\* the same for each family of the record.
C16_PlaceholderKeepsCitekey ==
    (/\ ret # NoCall /\ call.op = "insert_citekey"
     /\ call.outputtype = "bibtex" /\ call.outref = None
     /\ call.citekey = "foo") =>
        /\ ret.value # None
        /\ ret.value[1][1] = "@MISC {" /\ ret.value[1][2] = "foo"
        /\ ret.value[1][3] = ",\n   NOTE = {"
        /\ ret.value[1][4] = "Not Found!"
        /\ \A t \in ITYPES :
              insert_citekey(call.outputtype, call.outref, call.citekey,
                             call.biblabel, call.querystring, t) = ret.value

\* the placeholder was made for a record of the family amsrefs
C16_Witness ==
    /\ ret # NoCall /\ call.op = "insert_citekey"
    /\ call.outputtype = "bibtex" /\ call.outref = None
    /\ call.citekey = "foo" /\ call.reftype = "amsrefs"
    /\ ret.value # None

\* the atoms that are neither white space nor a comma
IsContent(a) == a \notin ENDING_STRIP \cup WHITESPACE

Content(s) == SelectSeq(s, IsContent)

\* the number of atoms of the text that stand before the splice point: up
\* to the last closing token of the family; without one, up to the first
\* two consecutive line ends; without these, the whole text
SplicePoint(reftype, refstring) ==
    LET closings == {i \in 1..Len(refstring) :
                       refstring[i] = REF_ENDING[reftype]}
        breaks == {i \in 1..(Len(refstring) - 1) :
                       refstring[i] = "\n" /\ refstring[i + 1] = "\n"}
    IN IF closings # {}
       THEN (CHOOSE i \in closings : \A j \in closings : j <= i) - 1
       ELSE IF breaks # {}
       THEN (CHOOSE i \in breaks : \A j \in breaks : i <= j) - 1
       ELSE Len(refstring)

\* C20: insert_mrid puts the formatted identifier at the splice point of the
\* three-step fallback (last closing token of the family, else first
\* paragraph break, else end of the text) and nowhere else: the text it
\* returns holds the identifier once, what stands before it is what stood
\* before the splice point and what stands after it is what stood after
\* the splice point (white space and commas at the seam set aside).
C20_SplicePointFallback ==
    (ret # NoCall /\ call.op = "insert_mrid" /\ call.reftype \in ITYPES) =>
        LET v == ret.value
            fmt == MR_FORMAT[call.reftype]
            ident == fmt.pre \o mrid_setter(call.mrid) \o fmt.post
            p == SplicePoint(call.reftype, call.refstring)
        IN /\ Cardinality(MrOpenings(v)) = 1
           /\ LET k == CHOOSE i \in MrOpenings(v) : TRUE
                  from == k - Len(fmt.pre) + 1
                  to == from + Len(ident) - 1
              IN /\ from >= 1 /\ to <= Len(v)
                 /\ SubSeq(v, from, to) = ident
                 /\ Content(SubSeq(v, 1, from - 1))
                      = Content(SubSeq(call.refstring, 1, p))
                 /\ Content(SubSeq(v, to + 1, Len(v)))
                      = Content(SubSeq(call.refstring, p + 1,
                                       Len(call.refstring)))

\* the method was called with a text that has two closing tokens
C20_Witness ==
    /\ ret # NoCall /\ call.op = "insert_mrid" /\ call.reftype = "bibitem"
    /\ call.refstring = <<"\\endbibitem", "w", "\\endbibitem", "w">>
    /\ SplicePoint(call.reftype, call.refstring) = 2

\* the records of the finished run
RecordsNow == SelectSeq(emitted, IsRecord)

\* C17: the segmentation of the file that a run without inserted identifier
\* wrote finds as many records as the run that wrote it, of the same
\* families, each starting at the same line number and made of as many
\* lines as in the first input.
C17_ResegmentationSameBoundaries ==
    (pc = "done" /\ first_pass # NoPass) =>
        /\ Len(RecordsNow) = Len(first_pass.recs)
        /\ \A i \in 1..Len(RecordsNow) :
              /\ RecordsNow[i].rec.reftype = first_pass.recs[i].reftype
              /\ Flatten(RecordsNow[i].rec.orig_lines)[1]
                   = first_pass.recs[i].start
              /\ Len(Flatten(RecordsNow[i].rec.orig_lines))
                   = first_pass.recs[i].nlines

\* C18: with require_env, the step of gather_records on a line that is an
\* environment marker seals and yields the open record, yields the marker
\* with its tag begin or end, and sets gather to TRUE for begin and to
\* FALSE for end, also for a begin that comes after an end.
C18_MarkerSetsGathering ==
    [][(/\ pc = "loop" /\ require_env /\ pos' = pos + 1
        /\ multiline = <<>> /\ KindOf(pos) \in {"begin", "end"}) =>
           /\ gather' = (KindOf(pos) = "begin")
           /\ emitted' # <<>>
           /\ Last(emitted').tag = KindOf(pos)
           /\ Last(emitted').text = <<pos>>
           /\ element'.reftype = "none"
           /\ element.reftype # "none" =>
                 /\ Len(emitted') = Len(emitted) + 2
                 /\ emitted'[Len(emitted) + 1].tag = element.reftype]_vars

\* C19: a record gets its refid when it is let into the batch; the refids
\* of the open batch are pairwise distinct, and the refids given over the
\* run are 1, 2, ..., TOTAL in the order of the document: none is used again.
C19_RefidsUniqueAscending ==
    /\ \A i, j \in 1..Len(elems) :
          elems[i].refid = elems[j].refid => i = j
    /\ finalized \o [i \in 1..Len(elems) |-> elems[i].refid]
         = [i \in 1..stdt.TOTAL |-> i]
    /\ \A i, j \in 1..Len(elems) :
          i < j => elems[i].seq < elems[j].seq
    /\ \A j, k \in 1..Len(out) :
          (out[j].kind = "rec" /\ out[k].kind = "rec" /\ j < k) =>
              out[j].refid < out[k].refid /\ out[j].seq < out[k].seq

\* three records got their refids, the third after a batch was flushed
C19_Witness ==
    /\ stdt.TOTAL = 3 /\ Len(finalized) = 2 /\ Len(elems) = 1
    /\ elems[1].refid = 3

\* C21: insert_mrid changes the text only at the splice point: with the
\* formatted identifier taken out of the text it returns, what stands before
\* is what stood before the splice point (white space and commas at its end
\* set aside) and what stands after is what stood after the splice point
\* (line ends at its start set aside); in particular the text begins as it
\* began.
C21_OnlySplicePointChanged ==
    (ret # NoCall /\ call.op = "insert_mrid" /\ call.reftype \in ITYPES) =>
        LET v == ret.value
            fmt == MR_FORMAT[call.reftype]
            ident == fmt.pre \o mrid_setter(call.mrid) \o fmt.post
            p == SplicePoint(call.reftype, call.refstring)
            k == CHOOSE i \in MrOpenings(v) : TRUE
            from == k - Len(fmt.pre) + 1
            to == from + Len(ident) - 1
        IN /\ RStrip(SubSeq(v, 1, from - 1), ENDING_STRIP)
                = RStrip(SubSeq(call.refstring, 1, p), ENDING_STRIP)
           /\ LStrip(SubSeq(v, to + 1, Len(v)), {"\n"})
                = LStrip(SubSeq(call.refstring, p + 1, Len(call.refstring)),
                         {"\n"})

\* the text t stands somewhere in the text s
Occurs(t, s) ==
    \E k \in 0..(Len(s) - Len(t)) : SubSeq(s, k + 1, k + Len(t)) = t

\* C22: when the same user key of a slot stands on more than one key=value
\* line, the value of each of these lines is in the text extract_keys_data
\* returns, whatever lines stand between them.
C22_RepeatedKeyAccumulates ==
    (ret # NoCall /\ call.op = "extract_keys_data") =>
        \A i, j \in 1..Len(call.lines) :
            (/\ i # j
             /\ call.lines[i].key # ""
             /\ SlotOf(call.lines[i]) # 0
             /\ Lower(call.lines[i].key) = Lower(call.lines[j].key)) =>
                Occurs(Strip(call.lines[i].value, VALUE_STRIP), ret.value)

\* the slot of the last key=value line before line i, 0 if there is none or
\* its key is in no slot
ContextSlot(lines, i) ==
    LET keyed == {j \in 1..(i - 1) : lines[j].key # ""}
    IN IF keyed = {} THEN 0
       ELSE SlotOf(lines[CHOOSE j \in keyed : \A m \in keyed : m <= j])

\* the lines without key=value that have a text
Unlabeled(lines) ==
    {i \in 1..Len(lines) :
        lines[i].key = "" /\ Strip(lines[i].value, VALUE_STRIP) # <<>>}

\* C23: a line without key=value goes, after a blank, to the slot of the most
\* recent key=value line when the key of that line is recognized, and to no
\* slot when it is not (or no such line came before): the text returned
\* holds the line's text once for each of the former lines and for none of
\* the latter.
C23_UnlabeledLineFollowsContext ==
    (ret # NoCall /\ call.op = "extract_keys_data") =>
        \A u \in Unlabeled(call.lines) :
            LET t == <<" ">> \o Strip(call.lines[u].value, VALUE_STRIP)
                v == ret.value
            IN Cardinality({k \in 0..(Len(v) - Len(t)) :
                               SubSeq(v, k + 1, k + Len(t)) = t})
                 = Cardinality({i \in Unlabeled(call.lines) :
                      /\ Strip(call.lines[i].value, VALUE_STRIP)
                           = Strip(call.lines[u].value, VALUE_STRIP)
                      /\ ContextSlot(call.lines, i) # 0})

\* a line of which _remove_tex_comments leaves nothing
IsCommentLine(line) == remove_tex_comments(line) = <<>>

\* the number of lines the tail of a record gives away: its trailing blank
\* lines and the comment lines right before them, if there is such a
\* comment line, else none
TailMoved(lines) ==
    LET n == Len(lines)
        blanks == CHOOSE k \in 0..n :
                     /\ \A i \in (n - k + 1)..n : IsBlank(lines[i])
                     /\ k < n => ~IsBlank(lines[n - k])
        comments == CHOOSE k \in 0..(n - blanks) :
                     /\ \A i \in (n - blanks - k + 1)..(n - blanks) :
                            IsCommentLine(lines[i])
                     /\ k < n - blanks =>
                            ~IsCommentLine(lines[n - blanks - k])
    IN IF comments = 0 THEN 0 ELSE blanks + comments

\* C24: in the step that seals a record, the comment lines at its tail (the
\* run of comment lines that ends before its trailing blank lines) leave it
\* together with those blank lines; they are the first lines and the
\* comments of the element opened for the following record (at the end of
\* the input: the text yielded with EOF). A record whose tail has no such
\* comment line keeps all its lines.
C24_TailCommentsMoveOn ==
    [][(/\ Len(emitted') > Len(emitted)
        /\ emitted'[Len(emitted) + 1].tag \in ITYPES) =>
           LET o == element.orig_lines
               c == element.comment_lines
               m == TailMoved(o)
               kept == SubSeq(o, 1, Len(o) - m)
               moved == SubSeq(o, Len(o) - m + 1, Len(o))
               moved_comments == SelectSeq(moved, IsCommentLine)
               rec == emitted'[Len(emitted) + 1].rec
           IN /\ rec.orig_lines = kept
              /\ rec.comment_lines \o moved_comments = c
              /\ kept # <<>> /\ ~IsCommentLine(Last(kept))
              /\ IF gen_done'
                 THEN /\ Last(emitted').tag = "EOF"
                      /\ Last(emitted').text = Flatten(moved)
                 ELSE /\ SubSeq(element'.orig_lines, 1, m) = moved
                      /\ SubSeq(element'.comment_lines, 1,
                                Len(moved_comments)) = moved_comments
                      /\ element'.reftype \in ITYPES =>
                            /\ Len(element'.orig_lines) = m + 1
                            /\ element'.comment_lines = moved_comments]_vars

\* a record was sealed that ends with a comment line and a blank line
C24_Witness ==
    \E i \in 1..Len(emitted) :
        /\ emitted[i].tag \in ITYPES
        /\ i < Len(emitted) /\ emitted[i + 1].tag = "EOF"
        /\ Len(emitted[i + 1].text) = 2
        /\ KindOf(emitted[i + 1].text[1]) = "comment"
        /\ KindOf(emitted[i + 1].text[2]) = "blank"

\* C25: sort_comments_out only splits what it is given: the lines it keeps
\* followed by the lines it hands over are the lines of the element, the
\* comments it keeps followed by the comments it hands over are the comments
\* of the element, every line handed over is a comment line or a blank
\* line, and the first content line of the element is kept.
C25_SortOnlySplits ==
    element.reftype # "none" =>
        LET o == element.orig_lines
            c == element.comment_lines
            s == sort_comments_out(o, c)
            content == {i \in 1..Len(o) :
                           ~IsCommentLine(o[i]) /\ ~IsBlank(o[i])}
        IN /\ s.orig_lines \o s.next_elem_orig_lines = o
           /\ s.comment_lines \o s.next_elem_comment_lines = c
           /\ \A i \in 1..Len(s.next_elem_orig_lines) :
                 \/ IsCommentLine(s.next_elem_orig_lines[i])
                 \/ IsBlank(s.next_elem_orig_lines[i])
           /\ content # {} /\ Min1(content) <= Len(s.orig_lines)

\* the element that is sealed at the end of the input has a comment line
\* and a blank line after its content; both were handed over
C25_Witness ==
    /\ gen_done
    /\ Len(emitted) >= 2
    /\ emitted[Len(emitted) - 1].tag \in ITYPES
    /\ emitted[Len(emitted) - 1].rec.orig_lines # <<>>
    /\ Len(Last(emitted).text) = 2
    /\ KindOf(Last(emitted).text[1]) = "comment"
    /\ KindOf(Last(emitted).text[2]) = "blank"
    /\ pc = "done"

\* C26: a record whose request fragment fails the pre-flight parse has no
\* fragment in the outgoing set and is not counted in valid (the outgoing set
\* holds the fragments of the other asked records of the open batch, one
\* each, and valid counts them); at the flush the record is written without
\* an identifier and finalized as query_error, and the other asked records
\* of the batch are dispatched.
C26_RejectedFragmentIsolated ==
    /\ pc # "aborted" =>
          /\ query_elems = SelectSeq([i \in 1..Len(elems) |-> elems[i].refid],
                 LAMBDA r : \E i \in 1..Len(elems) :
                    /\ elems[i].refid = r
                    /\ ~elems[i].orig_mrid /\ ~elems[i].rejected)
          /\ valid = Len(query_elems)
    /\ \A m \in Members :
          /\ m.rejected =>
                /\ ~m.sent /\ ~m.mrid
                /\ m.outcome = "query_error"
                /\ \E j \in 1..Len(out) :
                      out[j].kind = "rec" /\ out[j].refid = m.refid
                         /\ ~out[j].mrid
          /\ (~m.rejected /\ ~m.orig_mrid) => m.sent

\* C27: the delay is taken in the step that dispatches a batch and nowhere
\* else, hence never while a batch is open; it is taken after a dispatch
\* that the item limit set off and not after one that the end of the input
\* set off; so between two dispatches that follow each other there is a
\* delay: the delays are as many as the dispatches, or one less when the
\* last dispatch was set off by the end of the input.
C27_CooldownBetweenDispatches ==
    /\ [](pc # "aborted" =>
            /\ sleeps <= nqueries
            /\ nqueries - 1 <= sleeps
            /\ (nqueries >= 1 /\ sleeps = nqueries - 1) => eof)
    /\ [][/\ sleeps' # sleeps =>
               /\ sleeps' = sleeps + 1
               /\ nqueries' = nqueries + 1
               /\ elems' = <<>> /\ query_elems' = <<>> /\ valid' = 0
               /\ ~eof
          /\ (nqueries' = nqueries + 1 /\ pc' # "aborted") =>
               /\ Len(query_elems) >= 1
               /\ sleeps' = IF eof THEN sleeps ELSE sleeps + 1
               /\ eof <=> Len(query_elems) % query_items_limit # 0]_vars

\* two batches went out, the first because the limit was reached and the
\* second at the end of the input: one delay was taken
C27_Witness ==
    /\ pc = "done" /\ nqueries = 2 /\ sleeps = 1
    /\ itemno = 2 /\ stdt.TOTAL = 3

\* what is left of an identifier without the letters M and R it begins with
Unprefixed(mrid) ==
    LET others == {i \in 1..Len(mrid) : mrid[i] \notin {"M", "R"}}
    IN IF others = {} THEN <<>>
       ELSE SubSeq(mrid, Min1(others), Len(mrid))

\* C28: the identifier that insert_mrid is given is the normalized one: the
\* identifier of the answer without the letters M and R it begins with,
\* filled with zeros on the left up to 7 characters; one that has 7 or more
\* characters without the prefix is not shortened; and normalizing the
\* normalized identifier gives it back.
C28_IdentifierNormalized ==
    (ret # NoCall /\ call.op = "insert_mrid") =>
        LET n == mrid_setter(call.mrid)
            u == Unprefixed(call.mrid)
        IN /\ Len(n) >= 7
           /\ SubSeq(n, Len(n) - Len(u) + 1, Len(n)) = u
           /\ \A i \in 1..(Len(n) - Len(u)) : n[i] = "0"
           /\ Len(u) >= 7 => n = u
           /\ mrid_setter(n) = n
           /\ \E k \in MrOpenings(ret.value) :
                 /\ SubSeq(ret.value, k + 1, k + Len(n)) = n
                 /\ k + Len(n) < Len(ret.value)
                 /\ ret.value[k + Len(n) + 1] = "}"

\* the answer gave "RM7", and "MR12345678"
C28_Witness ==
    /\ ret # NoCall /\ call.op = "insert_mrid"
    /\ call.mrid = <<"R", "M", "7">>
    /\ call.reftype = "bibitem"
    /\ call.refstring = <<"w", "\\endbibitem">>
    /\ ret.value = <<"w", "\n", "\\MR{", "0", "0", "0", "0", "0", "0", "7",
                     "}", "\n", "\\endbibitem">>

\* RefElement.querystring of a record (handle_refs.py 336-350; handle_bbl.py
\* 519-521): the lines of the document that the string of the request
\* fragment is made of
elem_querystring(e) == Flatten(e.query_lines)

\* handle_bbl.py 410-412: the lines of the document that the string handed
\* to insert_citekey as querystring is made of,
\* elem.normalize(elem.cleaned_lines[1:])
placeholder_querystring(e) ==
    IF e.cleaned_lines = <<>> THEN <<>> ELSE Flatten(Tail(e.cleaned_lines))

\* C29: the query string that transfer_to_file hands to insert_citekey, and
\* that the placeholder of the output type ims carries for a record without
\* canonical text, is the string that was put into the request fragment of
\* the record.
C29_PlaceholderCarriesQuerystring ==
    \A i \in 1..Len(elems) :
        ~elems[i].orig_mrid =>
            placeholder_querystring(elems[i]) = elem_querystring(elems[i])

\* C30: when the service returned a reference and the output type is bibtex
\* or ims (the reference being a BibTeX entry) or amsrefs (the reference
\* being an amsrefs entry), insert_citekey returns the reference with the
\* cite key of the record in the place of the key of its header and nothing
\* else changed (white space at its ends set aside): the entry type, the
\* opening delimiter and the body are kept, for each family of the record.
C30_OnlyHeaderKeyRewritten ==
    (/\ ret # NoCall /\ call.op = "insert_citekey"
     /\ call.outref # None
     /\ \/ call.outputtype \in {"bibtex", "ims"}
              /\ call.outref.form = "bibtex"
        \/ call.outputtype = "amsrefs" /\ call.outref.form = "amsrefs") =>
        /\ ret.value # None
        /\ Strip(ret.value[1], WHITESPACE)
             = Strip(OutrefText([call.outref EXCEPT !.key = call.citekey]),
                     WHITESPACE)
        /\ \A t \in ITYPES :
              insert_citekey(call.outputtype, call.outref, call.citekey,
                             call.biblabel, call.querystring, t) = ret.value

\* the comment lines that transfer_to_file puts before the text of a record
\* with debug 1, 2 and 3: "%% querystring" and "%% errno"
DEBUG_QUERYSTRING == 0 - 1
DEBUG_ERRNO == 0 - 2

DebugLevels == 0..3

\* handle_bbl.py 407-408, 438-446: the text of a record that has no
\* identifier to insert, as transfer_to_file adds it to the output
outstring(e, clean_comments, debug) ==
    LET base == Flatten(IF clean_comments THEN e.cleaned_lines
                        ELSE e.orig_lines)
        commented == IF clean_comments /\ debug > 0
                     THEN Flatten(e.comment_lines) \o base
                     ELSE base
    IN IF debug = 1 THEN <<DEBUG_QUERYSTRING>> \o commented
       ELSE IF debug = 2 THEN <<DEBUG_ERRNO>> \o commented
       ELSE IF debug = 3 THEN <<DEBUG_QUERYSTRING, DEBUG_ERRNO>> \o commented
       ELSE commented

\* C31: with comment cleaning, the comment lines of a record are in the text
\* written for it, before its cleaned lines (and after the lines that the
\* debug level adds), at each debug level from 0 on.
C31_CleanedCommentsMovedToFront ==
    \A i \in 1..Len(elems) : \A debug \in DebugLevels :
        LET o == outstring(elems[i], TRUE, debug)
            c == Flatten(elems[i].comment_lines)
            h == Len(SelectSeq(o, LAMBDA a : a < 0))
        IN /\ Len(o) >= h + Len(c)
           /\ SubSeq(o, h + 1, h + Len(c)) = c
           /\ SubSeq(o, h + Len(c) + 1, Len(o))
                = Flatten(elems[i].cleaned_lines)

\* a number that every step of a run makes smaller: the passes that may
\* still follow, the lines the generator has not read, the items it has
\* yielded and the consumer has not taken, and the steps of the consumer
RunMeasure ==
    (IF require_env THEN 8 * (Len(doc) + 3) ELSE 0)
      + (IF gen_done THEN 0 ELSE 8 * (Len(doc) + 2 - pos))
      + 2 * Len(yielded)
      + (IF pc = "query" THEN 1 ELSE 0)
      + (IF pc \in {"done", "aborted"} THEN 0 ELSE 1)

\* C32: when the pass with require_env has read the whole document and no
\* record was accepted, the next step starts a second pass over the document
\* from its first line with require_env off, and with the output, the
\* deferred end lines and the end-of-input flag reset; a pass with
\* require_env off is never followed by another pass; what the output holds
\* are items of the last pass, each once; and every step brings the run
\* nearer to its end, so the run terminates.
C32_RescanOnceAfterReset ==
    /\ [][/\ (/\ pc = "loop" /\ gen_done /\ yielded = <<>>
             /\ stdt.TOTAL = 0 /\ require_env) =>
                /\ ~require_env' /\ pos' = 1 /\ ~gen_done'
                /\ out' = <<>> /\ ifile_end_lines' = <<>> /\ ~eof'
                /\ emitted' = <<>> /\ pc' = "loop"
          /\ require_env' # require_env =>
                /\ require_env /\ arg_require_env
                /\ stdt.TOTAL = 0 /\ gen_done /\ elems = <<>>
          /\ pc' = "done" => ~(stdt.TOTAL = 0 /\ require_env)
          /\ RunMeasure' < RunMeasure /\ RunMeasure' >= 0]_vars
    /\ [](/\ \A j \in 1..Len(out) :
                out[j].kind = "text" =>
                   (\E i \in 1..Len(emitted) :
                       /\ emitted[i].seq = out[j].seq
                       /\ emitted[i].text = out[j].text)
          /\ \A j, k \in 1..Len(out) : (out[j].seq = out[k].seq => j = k))

\* the first pass, inside the environments, found no record and wrote the
\* lines it read; the second pass found one and the run has ended
C32_Witness ==
    /\ pc = "done" /\ arg_require_env /\ ~require_env
    /\ stdt.TOTAL = 1 /\ Len(doc) = 3
    /\ Len(out) = 3

\* C33: at the end of a run the accepted records are counted once each in
\* the four counters of the summary: TOTAL = SUCCESS + NOT_FOUND + SKIP +
\* ERROR.
C33_CountersAddUp ==
    pc = "done" =>
        stdt.TOTAL = stdt.SUCCESS + stdt.NOT_FOUND + stdt.SKIP + stdt.ERROR

\* C34: a record of a flushed batch is counted in SUCCESS if and only if an
\* identifier was inserted into its text, and the count of the run is the
\* number of the identifiers written.
C34_SuccessIffIdentifierInserted ==
    /\ \A m \in Members : m.success <=> m.mrid
    /\ pc = "done" =>
          stdt.SUCCESS = Cardinality({j \in 1..Len(out) :
                                         out[j].kind = "rec" /\ out[j].mrid})

\* C35: the text written for a record that got no identifier is the lines
\* of the record as the generator yielded them, one after the other (comment
\* cleaning off, debug 0); and a run with lookups disabled writes every
\* record so and ends with TOTAL = SKIP.
C35_UnresolvedRecordUnchanged ==
    /\ \A j \in 1..Len(out) :
          (out[j].kind = "rec" /\ ~out[j].mrid) =>
             \E i \in EmittedRecs :
                /\ emitted[i].seq = out[j].seq
                /\ out[j].text = Flatten(emitted[i].rec.orig_lines)
                /\ out[j].text = outstring(emitted[i].rec, FALSE, 0)
    /\ disable_queries =>
          /\ \A j \in 1..Len(out) : ~out[j].mrid
          /\ stdt.SUCCESS = 0 /\ stdt.NOT_FOUND = 0 /\ stdt.ERROR = 0
          /\ pc = "done" =>
                /\ stdt.TOTAL = stdt.SKIP
                /\ stdt.TOTAL = Cardinality(EmittedRecs)
                /\ \A i \in EmittedRecs : \E j \in 1..Len(out) :
                      /\ out[j].kind = "rec" /\ out[j].seq = emitted[i].seq

\* a run with lookups disabled has ended; it wrote a record of three lines,
\* one of them a comment line
C35_Witness ==
    /\ pc = "done" /\ disable_queries /\ stdt.TOTAL = 1 /\ stdt.SKIP = 1
    /\ \E j \in 1..Len(out) :
          /\ out[j].kind = "rec" /\ Len(out[j].text) = 3
          /\ KindOf(out[j].text[2]) = "comment"

\* ======================================================================
\* QueryHandler.prepare_query_str, called on its own
\* ======================================================================
\* A query string is a sequence of characters.
MaxQueryLen == 3

\* HMTL_ENTITIES_MAP (handle_query.py 35-39), in its order
HMTL_ENTITIES_MAP ==
    << [old |-> "<", new |-> <<"&", "l", "t", ";">>],
       [old |-> ">", new |-> <<"&", "g", "t", ";">>],
       [old |-> "&", new |-> <<"&", "a", "m", "p", ";">>] >>

\* str.replace(old, new) for a character old
RECURSIVE Replace(_, _, _)
Replace(string, old, new) ==
    IF string = <<>> THEN <<>>
    ELSE (IF Head(string) = old THEN new ELSE <<Head(string)>>)
            \o Replace(Tail(string), old, new)

\* QueryHandler._escape_xml_entities (handle_query.py 134-151): reduce with
\* str.replace over the map, one pair after the other
escape_xml_entities(istring) ==
    Replace(Replace(Replace(istring,
                            HMTL_ENTITIES_MAP[1].old, HMTL_ENTITIES_MAP[1].new),
                    HMTL_ENTITIES_MAP[2].old, HMTL_ENTITIES_MAP[2].new),
            HMTL_ENTITIES_MAP[3].old, HMTL_ENTITIES_MAP[3].new)

\* QueryHandler.prepare_query_str (handle_query.py 199-219) for a file in
\* ASCII: QUERY_ITEM_PATTERN (25-32) joined with line ends and filled in;
\* the tags are single atoms.  The text escaped so has no character that
\* the parser rejects, so the error code is 0.
prepare_query_str(refid, querystring) ==
    [errno |-> 0,
     fragment |-> <<"<mref_item outtype=\"tex\">", "\n", " ", "<inref>", "\n",
                    " ", " ">>
                   \o escape_xml_entities(querystring)
                   \o <<"\n", " ", "</inref>", "\n", " ", "<myid>", refid,
                        "</myid>", "\n", "</mref_item>", "\n">>]

\* what an XML parser gives for character data: the references &lt; &gt;
\* and &amp; stand for one character each
RECURSIVE XmlDecode(_)
XmlDecode(s) ==
    IF s = <<>> THEN <<>>
    ELSE IF Len(s) >= 4 /\ SubSeq(s, 1, 4) = <<"&", "l", "t", ";">>
    THEN <<"<">> \o XmlDecode(SubSeq(s, 5, Len(s)))
    ELSE IF Len(s) >= 4 /\ SubSeq(s, 1, 4) = <<"&", "g", "t", ";">>
    THEN <<">">> \o XmlDecode(SubSeq(s, 5, Len(s)))
    ELSE IF Len(s) >= 5 /\ SubSeq(s, 1, 5) = <<"&", "a", "m", "p", ";">>
    THEN <<"&">> \o XmlDecode(SubSeq(s, 6, Len(s)))
    ELSE <<Head(s)>> \o XmlDecode(Tail(s))

\* the character data of the inref element of a fragment
InrefText(fragment) ==
    LET a == CHOOSE i \in 1..Len(fragment) : fragment[i] = "<inref>"
        b == CHOOSE i \in 1..Len(fragment) : fragment[i] = "</inref>"
    IN XmlDecode(SubSeq(fragment, a + 1, b - 1))

QueryChars == {"<", ">", "&", "a"}

PrepareCalls ==
    {[op |-> "prepare_query_str", refid |-> "1", querystring |-> q] :
       q \in UNION {[1..n -> QueryChars] : n \in 0..MaxQueryLen}}

\* handle_bbl.py 526-528
PrepareQueryStr ==
    /\ pc = "static" /\ call.op = "prepare_query_str" /\ ret = NoCall
    /\ ret' = [value |-> prepare_query_str(call.refid, call.querystring)]
    /\ UNCHANGED <<doc, arg_require_env, itemno, disable_queries, desync,
                   call, first_pass, gen_vars, yielded, cons_vars, pc>>

InitXml == NoRun /\ call \in PrepareCalls /\ ret = NoCall

NextXml == PrepareQueryStr

SpecXml == InitXml /\ [][NextXml]_vars

\* C36: the request fragment carries the query string without loss: the
\* character data of its inref element, as an XML parser reads it and
\* without the white space around it, is the query string, for query
\* strings with the characters <, > and &.
C36_FragmentCarriesQuerystring ==
    (ret # NoCall /\ call.op = "prepare_query_str") =>
        /\ ret.value.errno = 0
        /\ Strip(InrefText(ret.value.fragment), WHITESPACE) = call.querystring

\* C37: query() is called only with at least one pending fragment, when
\* their number has reached the item limit or the input has ended; when the
\* call returns, the outgoing set and the open batch are empty, so that the
\* record accepted next starts a new set; and a pending fragment belongs to
\* a record of the open batch that was not finalized before, so no fragment
\* goes out twice.
C37_NoEmptyNoRepeatedDispatch ==
    /\ [][nqueries' # nqueries =>
            /\ nqueries' = nqueries + 1
            /\ Len(query_elems) >= 1
            /\ valid = Len(query_elems)
            /\ (valid % query_items_limit = 0 \/ eof)
            /\ pc' # "aborted" =>
                  /\ query_elems' = <<>> /\ valid' = 0 /\ elems' = <<>>
                  /\ \A i \in 1..Len(query_elems) :
                        query_elems[i] \in Range(finalized')]_vars
    /\ [](/\ \A i, j \in 1..Len(query_elems) :
                (query_elems[i] = query_elems[j] => i = j)
          /\ \A i \in 1..Len(query_elems) :
                /\ query_elems[i] \notin Range(finalized)
                /\ \E k \in 1..Len(elems) : elems[k].refid = query_elems[i])

\* three batches of one record each went out
C37_Witness ==
    /\ pc = "done" /\ itemno = 1 /\ nqueries = 3 /\ ~disable_queries
    /\ Len(finalized) = 3

\* ------------------------------------------------------------------------
\* A resolved record, processed a second time
\* ------------------------------------------------------------------------

MrDigits == {"0", "1", "2", "3", "4", "5", "6", "7", "8", "9"}

\* str.replace(old, ""): the occurrences of old, from the left and without
\* overlap, are taken out
RECURSIVE RemoveAll(_, _)
RemoveAll(string, old) ==
    IF old = <<>> \/ Len(string) < Len(old) THEN string
    ELSE IF SubSeq(string, 1, Len(old)) = old
    THEN RemoveAll(SubSeq(string, Len(old) + 1, Len(string)), old)
    ELSE <<Head(string)>> \o RemoveAll(Tail(string), old)

\* the lines of a text as the iteration over a file gives them, each with
\* its line end
RECURSIVE SplitLines(_)
SplitLines(s) ==
    IF s = <<>> THEN <<>>
    ELSE LET n == Find(s, "\n")
         IN IF n = 0 THEN <<s>>
            ELSE <<SubSeq(s, 1, n)>> \o SplitLines(SubSeq(s, n + 1, Len(s)))

\* how many digits stand in a row from position i on
RECURSIVE DigitRun(_, _)
DigitRun(line, i) ==
    IF i > Len(line) \/ line[i] \notin MrDigits THEN 0
    ELSE 1 + DigitRun(line, i + 1)

\* RE_MR.search(line) is not None (handle_bbl.py 20-26), for a line made of
\* the opening of an identifier format, digits and closing braces: the
\* opening is followed at once by five to ten digits and then by the
\* closing brace
RE_MR_search(line) ==
    \E i \in 1..Len(line) :
        /\ line[i] \in {MR_FORMAT[t].pre[Len(MR_FORMAT[t].pre)] : t \in ITYPES}
        /\ LET n == DigitRun(line, i + 1)
           IN /\ n \in 5..10
              /\ i + n + 1 <= Len(line)
              /\ line[i + n + 1] = "}"

\* the test of gather_records on every line of a record (handle_bbl.py
\* 355-359, 374-378) for a record without a label: the cite key is taken
\* out of the line before the pattern is searched
orig_mrid(lines, citekey) ==
    \E k \in 1..Len(lines) : RE_MR_search(RemoveAll(lines[k], citekey))

\* a record of the family with the cite key in its first line
RecordText(reftype, citekey) ==
    CASE reftype = "bibitem" ->
           <<"\\bibitem{">> \o citekey \o <<"}", " ", "w", "\n">>
      [] reftype = "bibtex" ->
           <<"@article{">> \o citekey \o <<",", "\n", "w", "\n", "}", "\n">>
      [] reftype = "amsrefs" ->
           <<"\\bib{">> \o citekey
              \o <<"}", "{article}{", "\n", "w", "\n", "}", "\n">>

\* the cite keys "foo", "0", "1", "7", "12" and "1234"
Citekeys == { <<"foo">>, <<"0">>, <<"1">>, <<"7">>, <<"1", "2">>,
              <<"1", "2", "3", "4">> }

\* two runs over one record (handle_bbl.py 413-414 for the first, 350-381
\* and 419-423, 523-530 for the second): the first run writes the record
\* with the identifier of the answer; the second run reads what was
\* written, sends a fragment unless it finds an identifier, and on the same
\* answer inserts the identifier
process_twice(reftype, citekey, mrid) ==
    LET written == insert_mrid(reftype, RecordText(reftype, citekey),
                               mrid_setter(mrid))
        known == orig_mrid(SplitLines(written), citekey)
    IN [written |-> written,
        orig_mrid |-> known,
        dispatched |-> ~known,
        outstring |-> IF known THEN written
                      ELSE insert_mrid(reftype, written, mrid_setter(mrid))]

TwiceCalls ==
    {[op |-> "process_twice", reftype |-> t, citekey |-> c, mrid |-> m] :
       t \in ITYPES, c \in Citekeys, m \in MridsGiven}

ProcessTwice ==
    /\ pc = "static" /\ call.op = "process_twice" /\ ret = NoCall
    /\ ret' = [value |-> process_twice(call.reftype, call.citekey, call.mrid)]
    /\ UNCHANGED <<doc, arg_require_env, itemno, disable_queries, desync,
                   call, first_pass, gen_vars, yielded, cons_vars, pc>>

InitTwice == NoRun /\ call \in TwiceCalls /\ ret = NoCall

NextTwice == ProcessTwice

SpecTwice == InitTwice /\ [][NextTwice]_vars

\* C38: a record into which a run inserted an identifier, in the bibitem,
\* bibtex or amsrefs format, is recognized as having an identifier when the
\* output is processed again: the second run dispatches no fragment for it,
\* inserts no second identifier and leaves its text unchanged.
C38_ResolvedRecordRecognizedAgain ==
    (ret # NoCall /\ call.op = "process_twice") =>
        /\ ret.value.orig_mrid
        /\ ~ret.value.dispatched
        /\ ret.value.outstring = ret.value.written

\* ------------------------------------------------------------------------
\* The end of gather_records
\* ------------------------------------------------------------------------

\* what one call of gather_records still has to do: the lines not yet read
\* of the loop over the input (handle_bbl.py 302) and the final yields
\* (390-397)
GenMeasure == IF gen_done THEN 0 ELSE Len(doc) + 2 - pos

\* C39: every step of gather_records brings it nearer to its end, so it
\* terminates for every finite input; it emits the end-of-input tag exactly
\* once, as its last item, when the input is exhausted; a record that is
\* open then is sealed and emitted just before the tag; nothing is emitted
\* after the tag; and a run that has ended has seen the tag.
C39_EndTagOnceAndLast ==
    /\ [][/\ ((pos' # pos \/ gen_done' # gen_done \/ emitted' # emitted)
                /\ ~(gen_done /\ ~gen_done')) =>
                   /\ ~gen_done
                   /\ GenMeasure' < GenMeasure
                   /\ Len(emitted') >= Len(emitted)
                   /\ SubSeq(emitted', 1, Len(emitted)) = emitted
          /\ (gen_done' /\ ~gen_done) =>
                LET n == Len(emitted) IN
                /\ pos > Len(doc)
                /\ Last(emitted').tag = "EOF"
                /\ IF element.reftype # "none"
                   THEN /\ Len(emitted') = n + 2
                        /\ emitted'[n + 1].tag = element.reftype
                        /\ emitted'[n + 1].rec = Seal(element).item.rec
                   ELSE Len(emitted') = n + 1]_vars
    /\ [](/\ Cardinality({i \in 1..Len(emitted) : emitted[i].tag = "EOF"}) <= 1
          /\ gen_done <=> (emitted # <<>> /\ Last(emitted).tag = "EOF")
          /\ pc = "done" => gen_done
          /\ GenMeasure >= 0)

\* the input ended in an open record: a text, the record and the tag were
\* emitted, and the run has ended
C39_Witness ==
    /\ pc = "done" /\ gen_done /\ Len(emitted) = 3
    /\ emitted[1].tag \notin ITYPES
    /\ emitted[2].tag \in ITYPES /\ Len(emitted[2].rec.orig_lines) = 2
    /\ emitted[3].tag = "EOF"

\* ------------------------------------------------------------------------
\* The side data and the citation lines
\* ------------------------------------------------------------------------

MaxBatch == 2

\* the cite keys of the records of a batch, a different one for every
\* record (handle_bbl.py 352, 507-509)
CiteKeys == <<"a", "b", "c", "d">>

\* what the loop of transfer_to_file reads of a record for the side data
\* (handle_bbl.py 410-412, 456-457): how the record ended (413-434) and the
\* reference of the service, which only a record the service matched has
\* (handle_query.py 321-323, handle_refs.py 314)
Outcomes ==
    {"found", "not_found", "skip_mr_present", "skip_disabled", "query_error"}

\* with lookups disabled every record is skipped (handle_bbl.py 523-530,
\* 421-428)
DataElems(citekey, disable) ==
    {[citekey |-> citekey, biblabel |-> None, reftype |-> "bibitem",
      outcome |-> oc, outref |-> o] :
       oc \in IF disable THEN {"skip_mr_present", "skip_disabled"}
              ELSE {"not_found", "skip_mr_present", "query_error"},
       o \in {None}}
    \cup
    {[citekey |-> citekey, biblabel |-> None, reftype |-> "bibitem",
      outcome |-> "found", outref |-> o] :
       o \in {x \in Outrefs \ {None} : ~disable /\ x.text = <<>>}}

\* refs_container.elems: the records of a batch in the order they were
\* accepted
RECURSIVE Batches(_, _)
Batches(n, disable) ==
    IF n = 0 THEN {<<>>}
    ELSE {Append(b, e) : b \in Batches(n - 1, disable),
                         e \in DataElems(CiteKeys[n], disable)}

\* only a record with a reference of the service leaves an entry
data_entry_found_only(outputtype, elem) ==
    IF elem.outref = None THEN <<>>
    ELSE insert_citekey(outputtype, elem.outref, elem.citekey, elem.biblabel,
                        <<"q">>, elem.reftype)[1]

\* handle_bbl.py 410-412, 456: what a record adds to
\* data_container[self.fh.data]
data_entry(outputtype, elem) ==
    LET r == insert_citekey(outputtype, elem.outref, elem.citekey,
                            elem.biblabel, <<"q">>, elem.reftype)
    IN IF r = None THEN <<>> ELSE r[1]

\* handle_bbl.py 457: what a record adds to data_container[Ext.AUX]
aux_entry(elem) == <<"\\citation{", elem.citekey, "}\n">>

\* the loop of transfer_to_file (handle_bbl.py 404-457) for the two
\* accumulators, each as the sequence of what was added to it
transfer_side_data(outputtype, es) ==
    [data |-> [i \in 1..Len(es) |-> data_entry(outputtype, es[i])],
     aux |-> [i \in 1..Len(es) |-> aux_entry(es[i])]]

TransferCalls ==
    {[op |-> "transfer_to_file", outputtype |-> ot, elems |-> es] :
       ot \in OutputTypes \ {"none", "other"},
       es \in UNION {Batches(n, dis) : n \in 0..MaxBatch, dis \in BOOLEAN}}

TransferSideData ==
    /\ pc = "static" /\ call.op = "transfer_to_file" /\ ret = NoCall
    /\ ret' = [value |-> transfer_side_data(call.outputtype, call.elems)]
    /\ UNCHANGED <<doc, arg_require_env, itemno, disable_queries, desync,
                   call, first_pass, gen_vars, yielded, cons_vars, pc>>

InitData == NoRun /\ call \in TransferCalls /\ ret = NoCall

NextData == TransferSideData

SpecData == InitData /\ [][NextData]_vars

\* C40: with a target output syntax requested, every record of a batch,
\* whether found, not found, skipped or failed, adds exactly one entry to
\* the side data and exactly one citation line with its cite key to the
\* auxiliary data, in the order of the records; the entry of a record
\* without a reference of the service, also of one skipped for the
\* identifier it has, is the not-found placeholder of the syntax with the
\* cite key of the record.
C40_OneEntryOneCitationPerRecord ==
    (ret # NoCall /\ call.op = "transfer_to_file") =>
        LET es == call.elems
            d == ret.value.data
            a == ret.value.aux
        IN /\ Len(d) = Len(es) /\ Len(a) = Len(es)
           /\ \A i \in 1..Len(es) :
                 /\ a[i] = <<"\\citation{", es[i].citekey, "}\n">>
                 /\ d[i] # <<>>
                 /\ es[i].outref = None =>
                       /\ es[i].citekey \in Range(d[i])
                       /\ IF call.outputtype = "ims"
                          THEN ",\n   HOWPUBLISHED = {" \in Range(d[i])
                          ELSE "Not Found!" \in Range(d[i])

\* a batch of a found record and a record skipped for its identifier was
\* transferred
C40_Witness ==
    /\ ret # NoCall /\ call.op = "transfer_to_file"
    /\ Len(call.elems) = 2
    /\ call.elems[1].outcome = "found"
    /\ call.elems[2].outcome = "skip_mr_present"
    /\ Len(ret.value.data) = 2

====
